---- MODULE Spec2Model ----
(***************************************************************************)
(* AutoTrader One: the recommendation engine, the TTL cache of the data    *)
(* collector, the alert cooldown and metric history of the monitoring      *)
(* system, the four scorers, the collect-analyse-recommend run, the risk   *)
(* manager with its band tables, the lru_cache of the async collector, the *)
(* trade validation of the core risk manager and the loop thread of the    *)
(* monitoring system.                                                      *)
(*                                                                         *)
(* Scores are held in tenths of a point (59.9 is 599): every scorer        *)
(* rounds its score to one decimal.  Weights are held in tenths (0.4 is    *)
(* 4).  A quotient the code computes in floating point is held as the      *)
(* exact fraction <<numerator, denominator>>.                              *)
(***************************************************************************)
EXTENDS Integers, Sequences, FiniteSets, TLC

VARIABLES
    analysis_results,   \* engine input: analyses in dict insertion order
    recommendations,    \* engine output: sorted_recommendations
    rec_done,           \* generate_recommendations has returned
    main_out,           \* result of AutoTraderOne._get_recommendation
    now,                \* the wall clock, in seconds
    ticks,              \* how many times the clock has advanced
    cache,              \* DataCollector.cache: key -> entry
    task,               \* the coroutines calling the collector
    ev,                 \* what the last collector step returned to its caller
    metrics,            \* MonitoringSystem.metrics: name -> [(timestamp, value)]
    alerts,             \* MonitoringSystem.alerts
    alert_log,          \* the alert messages written to the logger
    tracked,            \* every (timestamp, value) pair tracked, per name
    mon_ev,             \* the last monitoring call
    score_ev,           \* the last call of a scorer: its input and its result
    run_pc,             \* the stage the collect-analyse-recommend run is at
    run_data,           \* collect_all's result, per symbol in input order
    run_results,        \* analyze_all's result: (symbol, analysis) in order
    run_recs,           \* the run's final output
    risk_ev,            \* the last call of the risk manager
    coroutines,         \* lru_cache of the collect_* methods: the keys held
    collect_log,        \* the calls of _collect_symbol_data, in order
    daily_loss,         \* core RiskManager.daily_loss
    daily_start_value,  \* core RiskManager.daily_start_value
    peak_portfolio_value,   \* core RiskManager.peak_portfolio_value
    trade_ev,           \* the last call of the core RiskManager
    is_monitoring,      \* MonitoringSystem.is_monitoring
    monitoring_thread,  \* MonitoringSystem.monitoring_thread, 0 for None
    loop_pc,            \* where each loop thread is
    loop_checks,        \* how often each loop thread has checked the alerts
    ctl_pc,             \* where the thread calling start and stop is
    loop_ev             \* the last step of the monitoring threads

recVars == <<analysis_results, recommendations, rec_done, main_out>>

cacheVars == <<cache, task, ev>>

monVars == <<metrics, alerts, alert_log, tracked, mon_ev>>

scoreVars == <<score_ev>>

runVars == <<run_pc, run_data, run_results, run_recs>>

riskVars == <<risk_ev>>

collectVars == <<coroutines, collect_log>>

\* The state of the components that are modelled on their own.
tradeVars ==
    <<daily_loss, daily_start_value, peak_portfolio_value, trade_ev>>

loopVars ==
    <<is_monitoring, monitoring_thread, loop_pc, loop_checks, ctl_pc,
      loop_ev>>

sideVars == <<collectVars, tradeVars, loopVars>>

\* The state of the engine, the cache and the monitoring system together.
baseVars == <<recVars, now, ticks, cacheVars, monVars>>

\* The state of every other component.
restVars == <<scoreVars, runVars, riskVars, sideVars>>

vars == <<baseVars, restVars>>

----------------------------------------------------------------------------
(* Bounds *)

MaxSymbols == 2

MaxTicks == 3

StartTime == 1

MaxTracks == 3

MaxRing == 1002

MaxProbeTracks == 1

----------------------------------------------------------------------------
(* RecommendationEngine, src/recommendations/engine.py *)

min_score == 60

risk_weights ==
    [technical |-> 4, fundamental |-> 3, news |-> 2, sentiment |-> 1]

AnalysisTypes == <<"technical", "fundamental", "news", "sentiment">>

\* A dimension of an analysis: kind "absent" (key not in the dict), "none"
\* (the key maps to None, so .get raises) or "dict".
Absent == [kind |-> "absent", has_score |-> FALSE, score |-> 0,
           has_value |-> FALSE, value |-> 0]

NoneResult == [kind |-> "none", has_score |-> FALSE, score |-> 0,
               has_value |-> FALSE, value |-> 0]

Result(s) == [kind |-> "dict", has_score |-> TRUE, score |-> s,
              has_value |-> FALSE, value |-> 0]

\* technical: value is signals.rsi.value (tenths); fundamental: value is
\* metrics.pe_ratio.value (units).
ResultV(s, v) == [kind |-> "dict", has_score |-> TRUE, score |-> s,
                  has_value |-> TRUE, value |-> v]

NoScore == [kind |-> "dict", has_score |-> FALSE, score |-> 0,
            has_value |-> FALSE, value |-> 0]

TechnicalResults ==
    {Absent, NoneResult, ResultV(600, 500), ResultV(800, 1000)}

FundamentalResults == {Absent, ResultV(599, 4), ResultV(200, 35)}

NewsResults == {Absent, NoScore}

SentimentResults == {Absent, Result(1000)}

Analyses ==
    [technical : TechnicalResults, fundamental : FundamentalResults,
     news : NewsResults, sentiment : SentimentResults]

Present(analysis) ==
    {t \in DOMAIN analysis : analysis[t].kind # "absent"}

\* analysis[t].get('score', 50)
GetScore(r) == IF r.has_score THEN r.score ELSE 500

\* Any access to a dimension that is None raises inside the try block.
Raises(analysis) == \E t \in Present(analysis) : analysis[t].kind = "none"

RECURSIVE WeightedSum(_, _)
WeightedSum(analysis, i) ==
    IF i = 0 THEN 0
    ELSE LET t == AnalysisTypes[i]
         IN  WeightedSum(analysis, i - 1)
             + (IF t \in Present(analysis)
                THEN GetScore(analysis[t]) * risk_weights[t] ELSE 0)

RECURSIVE TotalWeight(_, _)
TotalWeight(analysis, i) ==
    IF i = 0 THEN 0
    ELSE LET t == AnalysisTypes[i]
         IN  TotalWeight(analysis, i - 1)
             + (IF t \in Present(analysis) THEN risk_weights[t] ELSE 0)

\* The mutant: the weights are not renormalised over the present dimensions.
CalculateOverallScoreNoRenorm(analysis) ==
    <<WeightedSum(analysis, Len(AnalysisTypes)), 10>>

\* The mutant: every present dimension weighs the same.
RECURSIVE ScoreSum(_, _)
ScoreSum(analysis, i) ==
    IF i = 0 THEN 0
    ELSE LET t == AnalysisTypes[i]
         IN  ScoreSum(analysis, i - 1)
             + (IF t \in Present(analysis) THEN GetScore(analysis[t]) ELSE 0)

CalculateOverallScoreUnweighted(analysis) ==
    IF Present(analysis) = {} THEN <<500, 1>>
    ELSE <<ScoreSum(analysis, Len(AnalysisTypes)),
           Cardinality(Present(analysis))>>

\* _calculate_overall_score: <<n, d>> is the score n/d in tenths.
CalculateOverallScore(analysis) ==
    LET weighted_sum == WeightedSum(analysis, Len(AnalysisTypes))
        total_weight == TotalWeight(analysis, Len(AnalysisTypes))
    IN  IF total_weight = 0 THEN <<500, 1>>
        ELSE <<weighted_sum, total_weight>>

Abs(x) == IF x < 0 THEN -x ELSE x

Max(a, b) == IF a > b THEN a ELSE b

\* _calculate_risk_score: the result is n/10 in tenths, returned as n.
CalculateRiskScore(analysis) ==
    LET technical == analysis.technical
        volatility ==
            IF technical.kind = "dict" /\ technical.has_value
            THEN Max(500, 2 * Abs(technical.value - 500))
            ELSE 500
        sentiment_risk ==
            IF analysis.sentiment.kind = "dict"
            THEN 2 * Abs(GetScore(analysis.sentiment) - 500)
            ELSE 500
        fundamental == analysis.fundamental
        fundamental_risk ==
            IF fundamental.kind = "dict" /\ fundamental.has_value
            THEN IF fundamental.value > 30 THEN 700
                 ELSE IF fundamental.value < 5 THEN 600 ELSE 500
            ELSE 500
    IN  volatility * 4 + sentiment_risk * 3 + fundamental_risk * 3

\* The mutant: the buy comparison is strict.
DecideStrict(overall) ==
    IF overall[1] > min_score * 10 * overall[2] THEN "buy"
    ELSE IF overall[1] <= (100 - min_score) * 10 * overall[2] THEN "sell"
    ELSE "hold"

\* engine.py 61-67
Decide(overall) ==
    IF overall[1] >= min_score * 10 * overall[2] THEN "buy"
    ELSE IF overall[1] <= (100 - min_score) * 10 * overall[2] THEN "sell"
    ELSE "hold"

\* round(n/d) to the nearest integer, an exact tie to the even neighbour.
Round(n, d) ==
    LET q == n \div d
        r == n % d
    IN  IF 2 * r < d THEN q
        ELSE IF 2 * r > d THEN q + 1
        ELSE IF q % 2 = 0 THEN q ELSE q + 1

\* engine.py 75-85: the appended record (explanation, probability, return
\* and timestamp are formatting of the same inputs and feed nothing else).
MakeRecommendation(symbol, analysis) ==
    LET overall_score == CalculateOverallScore(analysis)
        risk_score == CalculateRiskScore(analysis)
    IN  [symbol |-> symbol,
         recommendation |-> Decide(overall_score),
         overall_score |-> Round(overall_score[1], overall_score[2]),
         risk_score |-> Round(risk_score, 10),
         analysis |-> analysis]

\* engine.py 45-88: the loop; a symbol whose computation raises is skipped.
RECURSIVE Collect(_, _)
Collect(results, i) ==
    IF i = 0 THEN <<>>
    ELSE IF Raises(results[i]) THEN Collect(results, i - 1)
    ELSE Append(Collect(results, i - 1), MakeRecommendation(i, results[i]))

SelectRec(recs, label) == SelectSeq(recs, LAMBDA r : r.recommendation = label)

\* list.sort is stable: x goes behind every element that does not have to
\* come after it.
RECURSIVE InsertAsc(_, _)
InsertAsc(sorted, x) ==
    IF sorted = <<>> THEN <<x>>
    ELSE IF Head(sorted).overall_score <= x.overall_score
         THEN <<Head(sorted)>> \o InsertAsc(Tail(sorted), x)
         ELSE <<x>> \o sorted

RECURSIVE SortAsc(_, _)
SortAsc(recs, i) ==
    IF i = 0 THEN <<>> ELSE InsertAsc(SortAsc(recs, i - 1), recs[i])

\* sort(reverse=True) keeps the input order of equal keys.
RECURSIVE InsertDesc(_, _)
InsertDesc(sorted, x) ==
    IF sorted = <<>> THEN <<x>>
    ELSE IF Head(sorted).overall_score >= x.overall_score
         THEN <<Head(sorted)>> \o InsertDesc(Tail(sorted), x)
         ELSE <<x>> \o sorted

RECURSIVE SortDesc(_, _)
SortDesc(recs, i) ==
    IF i = 0 THEN <<>> ELSE InsertDesc(SortDesc(recs, i - 1), recs[i])

\* The mutant: the buy group is sorted ascending and then reversed.
RECURSIVE Reverse(_)
Reverse(s) == IF s = <<>> THEN <<>> ELSE Append(Reverse(Tail(s)), Head(s))

SortedRecommendationsReversed(recs) ==
    LET buy == SelectRec(recs, "buy")
        sell == SelectRec(recs, "sell")
        hold == SelectRec(recs, "hold")
    IN  Reverse(SortAsc(buy, Len(buy))) \o SortAsc(sell, Len(sell)) \o hold

\* engine.py 90-99
SortedRecommendations(recs) ==
    LET buy_recommendations == SelectRec(recs, "buy")
        sell_recommendations == SelectRec(recs, "sell")
        hold_recommendations == SelectRec(recs, "hold")
    IN  SortDesc(buy_recommendations, Len(buy_recommendations))
        \o SortAsc(sell_recommendations, Len(sell_recommendations))
        \o hold_recommendations

\* analyzer.py 61-67: the caller adds one symbol's analysis to the dict.
AddAnalysis(analysis) ==
    /\ ~rec_done
    /\ ~main_out.called
    /\ Len(analysis_results) < MaxSymbols
    /\ analysis_results' = Append(analysis_results, analysis)
    /\ UNCHANGED <<recommendations, rec_done, main_out>>
    /\ UNCHANGED <<now, ticks, cacheVars, monVars, restVars>>

GenerateRecommendations ==
    /\ ~rec_done
    /\ ~main_out.called
    /\ recommendations' =
           SortedRecommendations(
               Collect(analysis_results, Len(analysis_results)))
    /\ rec_done' = TRUE
    /\ UNCHANGED <<analysis_results, main_out>>
    /\ UNCHANGED <<now, ticks, cacheVars, monVars, restVars>>

----------------------------------------------------------------------------
(* AutoTraderOne._get_recommendation, src/main.py *)

\* config['recommendations']['thresholds'], in tenths
ThresholdConfigs == {[buy |-> 600, sell |-> 400, max_risk |-> 800]}

TotalScores == {300, 500, 600, 750}

RiskScores == {500, 800, 850}

GetRecommendation(total_score, risk_score, thresholds) ==
    IF total_score >= thresholds.buy /\ risk_score <= thresholds.max_risk
    THEN "buy"
    ELSE IF total_score <= thresholds.sell
            \/ risk_score >= thresholds.max_risk
    THEN "sell"
    ELSE "hold"

NoMainOut == [called |-> FALSE, total_score |-> 0, risk_score |-> 0,
              max_risk |-> 0, recommendation |-> "hold"]

MainGetRecommendation(total_score, risk_score, thresholds) ==
    /\ analysis_results = <<>>
    /\ ~rec_done
    /\ main_out' = [called |-> TRUE, total_score |-> total_score,
                    risk_score |-> risk_score,
                    max_risk |-> thresholds.max_risk,
                    recommendation |->
                        GetRecommendation(total_score, risk_score, thresholds)]
    /\ UNCHANGED <<analysis_results, recommendations, rec_done>>
    /\ UNCHANGED <<now, ticks, cacheVars, monVars, restVars>>

----------------------------------------------------------------------------
(* DataCollector, src/data_sources/data_collector.py *)

cache_timeout == [market_data |-> 300, news |-> 300, fundamental |-> 3600]

DataTypes == {"market_data", "fundamental"}

Symbols == {"EQNR.OL"}

Tasks == {1, 2}

\* What the upstream provider hands back: a payload, None, or an exception.
Payloads == {"d1", "d2"}

FetchOutcomes == Payloads \cup {"None", "raise"}

CacheTickSteps == {150, 3300}

\* cache_key = f"{data_type}_{symbol}"
CacheKey(data_type, symbol) == <<data_type, symbol>>

CacheKeys == {CacheKey(d, s) : d \in DataTypes, s \in Symbols}

NoEntry == [has |-> FALSE, data |-> "None", timestamp |-> 0]

\* The mutant: the comparison with the timeout is reversed.
IsCacheValidReversed(key, data_type) ==
    IF ~cache[key].has THEN FALSE
    ELSE now - cache[key].timestamp > cache_timeout[data_type]

\* The mutant: an entry exactly as old as the timeout still counts as valid.
IsCacheValidInclusive(key, data_type) ==
    IF ~cache[key].has THEN FALSE
    ELSE now - cache[key].timestamp <= cache_timeout[data_type]

\* _is_cache_valid
IsCacheValid(key, data_type) ==
    IF ~cache[key].has THEN FALSE
    ELSE LET cache_entry == cache[key]
             cache_age == now - cache_entry.timestamp
         IN  cache_age < cache_timeout[data_type]

\* _cache_data
CacheData(key, data) ==
    [cache EXCEPT ![key] = [has |-> TRUE, data |-> data, timestamp |-> now]]

\* The mutant: the handler falls back on whatever the cache holds.
ExceptHandlerServeStale(key) ==
    [data |-> cache[key].data, propagated |-> FALSE]

\* except Exception: log and return None; nothing reaches the caller.
ExceptHandler(key) == [data |-> "None", propagated |-> FALSE]

\* The mutant: a request for a key that is already being fetched joins the
\* fetch in flight instead of calling the provider again.
GetDataSingleFlight(t, data_type, symbol) ==
    /\ task[t].pc = "idle"
    /\ LET cache_key == CacheKey(data_type, symbol)
       IN  IF IsCacheValid(cache_key, data_type)
           THEN /\ ev' = [op |-> "get_hit", key |-> cache_key,
                          data |-> cache[cache_key].data,
                          propagated |-> FALSE]
                /\ UNCHANGED task
           ELSE /\ task' = IF \E u \in Tasks :
                                  /\ task[u].pc = "fetching"
                                  /\ task[u].key = cache_key
                           THEN task
                           ELSE [task EXCEPT
                                    ![t] = [pc |-> "fetching",
                                            key |-> cache_key]]
                /\ ev' = [op |-> "get_miss", key |-> cache_key,
                          data |-> "pending", propagated |-> FALSE]
    /\ UNCHANGED <<cache, now, ticks, recVars, monVars, restVars>>

\* get_market_data / get_news_data / get_fundamental_data up to the await:
\* a valid entry is returned at once, otherwise the provider is called.
\* The await is the one place where the caller can lose control before the
\* result is stored; nothing (no lock, no table of fetches in flight) is
\* consulted besides the cache itself.
GetData(t, data_type, symbol) ==
    /\ task[t].pc = "idle"
    /\ LET cache_key == CacheKey(data_type, symbol)
       IN  IF IsCacheValid(cache_key, data_type)
           THEN /\ ev' = [op |-> "get_hit", key |-> cache_key,
                          data |-> cache[cache_key].data,
                          propagated |-> FALSE]
                /\ UNCHANGED task
           ELSE /\ task' = [task EXCEPT
                               ![t] = [pc |-> "fetching", key |-> cache_key]]
                /\ ev' = [op |-> "get_miss", key |-> cache_key,
                          data |-> "pending", propagated |-> FALSE]
    /\ UNCHANGED <<cache, now, ticks, recVars, monVars, restVars>>

\* The mutant: whatever the provider returns is cached, None included.
FetchReturnCachingNone(t, outcome) ==
    /\ task[t].pc = "fetching"
    /\ LET cache_key == task[t].key
       IN  /\ cache' = IF outcome # "raise"
                       THEN CacheData(cache_key, outcome)
                       ELSE cache
           /\ ev' = IF outcome = "raise"
                    THEN [op |-> "fetch_raise", key |-> cache_key]
                         @@ ExceptHandler(cache_key)
                    ELSE [op |-> IF outcome = "None" THEN "fetch_none"
                                 ELSE "fetch_ok",
                          key |-> cache_key, data |-> outcome,
                          propagated |-> FALSE]
    /\ task' = [task EXCEPT ![t] = [pc |-> "idle", key |-> task[t].key]]
    /\ UNCHANGED <<now, ticks, recVars, monVars, restVars>>

\* The same methods from the provider's answer on: a payload is cached and
\* returned, None is returned uncached, an exception goes to the handler.
FetchReturn(t, outcome) ==
    /\ task[t].pc = "fetching"
    /\ LET cache_key == task[t].key
       IN  /\ cache' = IF outcome \in Payloads
                       THEN CacheData(cache_key, outcome)
                       ELSE cache
           /\ ev' = IF outcome = "raise"
                    THEN [op |-> "fetch_raise", key |-> cache_key]
                         @@ ExceptHandler(cache_key)
                    ELSE [op |-> IF outcome = "None" THEN "fetch_none"
                                 ELSE "fetch_ok",
                          key |-> cache_key, data |-> outcome,
                          propagated |-> FALSE]
    /\ task' = [task EXCEPT ![t] = [pc |-> "idle", key |-> task[t].key]]
    /\ UNCHANGED <<now, ticks, recVars, monVars, restVars>>

\* clear_cache
ClearCache ==
    /\ cache # [k \in CacheKeys |-> NoEntry]
    /\ cache' = [k \in CacheKeys |-> NoEntry]
    /\ ev' = [op |-> "clear", key |-> CHOOSE k \in CacheKeys : TRUE,
              data |-> "None", propagated |-> FALSE]
    /\ UNCHANGED <<task, now, ticks, recVars, monVars, restVars>>

\* Time passes between two steps of the collector.
CacheTick(d) ==
    /\ ticks < MaxTicks
    /\ now' = now + d
    /\ ticks' = ticks + 1
    /\ ev' = [op |-> "tick", key |-> CHOOSE k \in CacheKeys : TRUE,
              data |-> "None", propagated |-> FALSE]
    /\ UNCHANGED <<cache, task, recVars, monVars, restVars>>

----------------------------------------------------------------------------
(* Alert and MonitoringSystem, src/core/monitoring.py *)
(* Metric values and thresholds are held in units of 0.00001.              *)

Cooldown == 3600

MaxHistory == 1000

EqTolerance == 10

\* config['monitoring']['alerts'], as _load_alerts builds them
AlertConfig ==
    << [name |-> "daily_loss", condition |-> "gt", threshold |-> 2000,
        severity |-> "warning", last_triggered |-> 0],
       [name |-> "daily_loss", condition |-> "eq", threshold |-> 5000,
        severity |-> "error", last_triggered |-> 0],
       [name |-> "portfolio_value", condition |-> "lt", threshold |-> 2000,
        severity |-> "info", last_triggered |-> 0] >>

MetricNames == {"daily_loss", "portfolio_value"}

MetricValues == {1000, 3000, 5000}

\* The optional timestamp argument; 0 stands for None.
Timestamps == {0}

AlertTickSteps == {600, 3000}

\* The mutant: a value exactly 0.0001 away from the threshold counts as equal.
ShouldTriggerInclusive(alert, current_value) ==
    IF alert.condition = "gt" THEN current_value > alert.threshold
    ELSE IF alert.condition = "lt" THEN current_value < alert.threshold
    ELSE IF alert.condition = "eq"
    THEN Abs(current_value - alert.threshold) <= EqTolerance
    ELSE FALSE

\* Alert.should_trigger
ShouldTrigger(alert, current_value) ==
    IF alert.condition = "gt" THEN current_value > alert.threshold
    ELSE IF alert.condition = "lt" THEN current_value < alert.threshold
    ELSE IF alert.condition = "eq"
    THEN Abs(current_value - alert.threshold) < EqTolerance
    ELSE FALSE

\* The mutant: the cooldown comparison is reversed.
SuppressedReversed(alert) ==
    alert.last_triggered # 0 /\ now - alert.last_triggered > Cooldown

\* _trigger_alert, the early return: last_triggered is set (None and 0 are
\* both false) and less than an hour old.
Suppressed(alert) ==
    alert.last_triggered # 0 /\ now - alert.last_triggered < Cooldown

\* The mutant: a suppressed breach restarts the cooldown.
TriggerAlertPostponing(alert) == [alert EXCEPT !.last_triggered = now]

\* _trigger_alert: the alert as it is left.
TriggerAlert(alert) ==
    IF Suppressed(alert) THEN alert
    ELSE [alert EXCEPT !.last_triggered = now]

\* check_alerts: the condition under which _trigger_alert is called.
Breached(alert, metric_name, current_value) ==
    alert.name = metric_name /\ ShouldTrigger(alert, current_value)

\* The mutant: the loop does not compare the alert's name with the metric.
CheckAlertsAnyName(metric_name, current_value) ==
    [i \in DOMAIN alerts |->
        IF ShouldTrigger(alerts[i], current_value)
        THEN TriggerAlert(alerts[i])
        ELSE alerts[i]]

\* check_alerts: the alerts after the loop.
CheckAlerts(metric_name, current_value) ==
    [i \in DOMAIN alerts |->
        IF Breached(alerts[i], metric_name, current_value)
        THEN TriggerAlert(alerts[i])
        ELSE alerts[i]]

\* check_alerts: the messages the loop logs, in the order of the alerts.
RECURSIVE LoggedAlerts(_, _, _)
LoggedAlerts(metric_name, current_value, i) ==
    IF i = 0 THEN <<>>
    ELSE LET rest == LoggedAlerts(metric_name, current_value, i - 1)
         IN  IF /\ Breached(alerts[i], metric_name, current_value)
                /\ ~Suppressed(alerts[i])
             THEN Append(rest, [alert |-> i, value |-> current_value,
                                severity |-> alerts[i].severity,
                                time |-> now])
             ELSE rest

\* track_metric, line 92: the pair stored, (timestamp or time.time(), value)
MetricEntry(timestamp, value) ==
    <<IF timestamp # 0 THEN timestamp ELSE now, value>>

\* The mutant: the trim keeps the first 1000 entries.
AppendMetricKeepingOldest(history, timestamp, value) ==
    LET appended == Append(history, MetricEntry(timestamp, value))
    IN  IF Len(appended) > MaxHistory
        THEN SubSeq(appended, 1, MaxHistory)
        ELSE appended

\* track_metric, lines 89-96: append and keep the last 1000.
AppendMetric(history, timestamp, value) ==
    LET appended == Append(history, MetricEntry(timestamp, value))
    IN  IF Len(appended) > MaxHistory
        THEN SubSeq(appended, Len(appended) - MaxHistory + 1, Len(appended))
        ELSE appended

TotalTracked == Len(tracked["daily_loss"]) + Len(tracked["portfolio_value"])

\* track_metric
TrackMetric(name, value, timestamp) ==
    /\ metrics' = [metrics EXCEPT
                      ![name] = AppendMetric(metrics[name], timestamp, value)]
    /\ tracked' = [tracked EXCEPT
                      ![name] = Append(@, MetricEntry(timestamp, value))]
    /\ alerts' = CheckAlerts(name, value)
    /\ alert_log' = alert_log \o LoggedAlerts(name, value, Len(alerts))
    /\ mon_ev' = [op |-> "track", name |-> name, value |-> value]
    /\ UNCHANGED <<now, ticks, recVars, cacheVars, restVars>>

\* Time passes between two monitoring calls.
MonTick(d) ==
    /\ ticks < MaxTicks
    /\ now' = now + d
    /\ ticks' = ticks + 1
    /\ mon_ev' = [op |-> "tick", name |-> "", value |-> 0]
    /\ UNCHANGED <<metrics, alerts, alert_log, tracked, recVars, cacheVars,
                   restVars>>

\* Values on, next to and 0.0001 away from the thresholds of AlertConfig.
ProbeValues == {1999, 2000, 2001, 4990, 4991, 5000, 5009, 5010}

\* A caller evaluates alert.should_trigger(current_value) by itself.
EvaluateAlert(i, current_value) ==
    /\ mon_ev' = [op |-> "should_trigger", name |-> alerts[i].name,
                  value |-> current_value, alert |-> i,
                  result |-> ShouldTrigger(alerts[i], current_value)]
    /\ UNCHANGED <<metrics, alerts, alert_log, tracked, now, ticks, recVars,
                   cacheVars, restVars>>

\* A long feed of one metric: the k-th call passes the timestamp k and a
\* value that depends on k, so that every entry can be told from the others.
RingValue(k) ==
    IF k % 3 = 0 THEN 1000 ELSE IF k % 3 = 1 THEN 3000 ELSE 5000

RingTrack(name) ==
    /\ \A other \in MetricNames \ {name} : tracked[other] = <<>>
    /\ Len(tracked[name]) < MaxRing
    /\ TrackMetric(name, RingValue(Len(tracked[name]) + 1),
                   Len(tracked[name]) + 1)

----------------------------------------------------------------------------
(* TechnicalAnalyzer, src/analysis/technical.py *)
(* A price frame is held by what the indicator code can see of it: which   *)
(* columns it has, how many rows, and, when the indicators are computable, *)
(* the zone the RSI falls in and the signal each crossing test yields.     *)

Signals == {"buy", "sell", "neutral"}

RsiZones == {"low", "mid", "high"}

Frame(rows, close, volume, rsi, sma, macd, vol) ==
    [rows |-> rows, close |-> close, volume |-> volume,
     rsi |-> rsi, sma |-> sma, macd |-> macd, vol |-> vol]

\* pd.DataFrame(None) and pd.DataFrame({}): no columns, no rows.
EmptyFrame == Frame("empty", FALSE, FALSE, "mid", "neutral", "neutral",
                    "neutral")

\* Frames of no rows or of a single row, with or without each column.
ShortFrames ==
    {Frame(rows, close, volume, "mid", "neutral", "neutral", "neutral") :
        rows \in {"empty", "one"}, close \in BOOLEAN, volume \in BOOLEAN}

\* Frames of at least two rows.
LongFrames ==
    {Frame("many", close, volume, rsi, sma, macd, vol) :
        close \in BOOLEAN, volume \in BOOLEAN, rsi \in RsiZones,
        sma \in Signals, macd \in Signals, vol \in Signals}

Frames == ShortFrames \cup LongFrames

\* _calculate_rsi: the zone of the value returned.  A missing column or an
\* empty frame raises inside the try and gives 50.0; a single row gives NaN,
\* which neither comparison of _get_rsi_score accepts.
CalculateRsi(df) ==
    IF ~df.close \/ df.rows = "empty" THEN "mid"
    ELSE IF df.rows = "one" THEN "mid"
    ELSE df.rsi

\* _get_rsi_score
GetRsiScore(rsi) ==
    IF rsi = "high" THEN 20 ELSE IF rsi = "low" THEN 80 ELSE 50

\* _get_signal_score
GetSignalScore(signal) ==
    IF signal = "buy" THEN 80 ELSE IF signal = "sell" THEN 20 ELSE 50

\* _calculate_sma_signals: the except handler reads df['Close'].iloc[-1]
\* itself, so without the column or without rows the handler raises.
CalculateSmaSignals(df) ==
    IF ~df.close \/ df.rows = "empty"
    THEN [raised |-> TRUE, signal |-> "neutral"]
    ELSE IF df.rows = "one" THEN [raised |-> FALSE, signal |-> "neutral"]
    ELSE [raised |-> FALSE, signal |-> df.sma]

\* _calculate_macd_signals: every failure gives the neutral constants.
CalculateMacdSignals(df) ==
    IF ~df.close \/ df.rows # "many" THEN "neutral" ELSE df.macd

\* _calculate_volume_signals: a missing column or an empty frame raises
\* inside the try, a single row gives a NaN ratio: neutral in each case.
CalculateVolumeSignals(df) ==
    IF ~df.volume \/ df.rows # "many" THEN "neutral" ELSE df.vol

\* Some computation of analyze ended in an except handler.
TechnicalFailure(df) ==
    \/ ~df.close
    \/ ~df.volume
    \/ df.rows # "many"

\* _calculate_technical_score, in tenths:
\* round(rsi*0.3 + sma*0.3 + macd*0.3 + volume*0.1, 1)
CalculateTechnicalScore(rsi, sma, macd, volume) ==
    GetRsiScore(rsi) * 3 + GetSignalScore(sma) * 3
    + GetSignalScore(macd) * 3 + GetSignalScore(volume) * 1

\* The dict of analyze's except handler.
TechnicalDefault ==
    [score |-> 500, recommendation |-> "hold", error |-> TRUE,
     raised |-> FALSE]

\* The mutant: analyze has no handler of its own.
TechnicalAnalyzeUnguarded(market_data) ==
    LET sma_signals == CalculateSmaSignals(market_data)
        technical_score ==
            CalculateTechnicalScore(CalculateRsi(market_data),
                                    sma_signals.signal,
                                    CalculateMacdSignals(market_data),
                                    CalculateVolumeSignals(market_data))
    IN  [score |-> technical_score,
         recommendation |->
             IF technical_score >= 700 THEN "buy"
             ELSE IF technical_score <= 300 THEN "sell" ELSE "hold",
         error |-> FALSE, raised |-> sma_signals.raised]

\* TechnicalAnalyzer.analyze
TechnicalAnalyze(market_data) ==
    LET rsi == CalculateRsi(market_data)
        sma_signals == CalculateSmaSignals(market_data)
        macd_signals == CalculateMacdSignals(market_data)
        volume_signals == CalculateVolumeSignals(market_data)
        technical_score ==
            CalculateTechnicalScore(rsi, sma_signals.signal, macd_signals,
                                    volume_signals)
    IN  IF sma_signals.raised THEN TechnicalDefault
        ELSE [score |-> technical_score,
              recommendation |->
                  IF technical_score >= 700 THEN "buy"
                  ELSE IF technical_score <= 300 THEN "sell" ELSE "hold",
              error |-> FALSE, raised |-> FALSE]

\* One call of TechnicalAnalyzer.analyze.  The scorers keep no state
\* between calls, so a behaviour holds one call.
AnalyzeTechnical(market_data) ==
    /\ score_ev.op = "init"
    /\ score_ev' = [op |-> "technical", input |-> market_data,
                    result |-> TechnicalAnalyze(market_data)]
    /\ UNCHANGED <<baseVars, runVars, riskVars, sideVars>>

----------------------------------------------------------------------------
(* FundamentalAnalyzer, src/analysis/fundamental.py *)
(* P/E and EPS are held in units, revenue growth and profit margin in per   *)
(* cent; sub-scores are in points, the overall score in tenths.            *)

\* self.metrics, the default of the constructor
fundamental_metrics == {"pe_ratio", "eps", "revenue_growth"}

MetricKeys == {"pe_ratio", "eps", "revenue_growth", "profit_margin"}

\* A key of the payload: not in the dict, present with None, or a number.
AbsentField == [kind |-> "absent", v |-> 0]

NullField == [kind |-> "null", v |-> 0]

Num(v) == [kind |-> "num", v |-> v]

\* A payload that is None or {}.
NoFundamentals ==
    [kind |-> "none", pe_ratio |-> AbsentField, eps |-> AbsentField,
     revenue_growth |-> AbsentField, profit_margin |-> AbsentField]

PeFields ==
    {AbsentField, NullField} \cup {Num(v) : v \in {4, 5, 10, 15, 16, 36}}

EpsFields == {AbsentField, NullField} \cup {Num(v) : v \in {0, 2, 3, 5, 6}}

GrowthFields ==
    {AbsentField, NullField} \cup {Num(v) : v \in {-40, -1, 0, 5, 10, 15, 20}}

MarginFields == {AbsentField, Num(10)}

FundamentalPayloads ==
    {NoFundamentals}
    \cup [kind : {"dict"}, pe_ratio : PeFields, eps : EpsFields,
          revenue_growth : GrowthFields, profit_margin : MarginFields]

\* fundamental.py 51-60
PeScore(pe_ratio) ==
    IF 5 <= pe_ratio /\ pe_ratio <= 15 THEN 80
    ELSE IF 15 < pe_ratio /\ pe_ratio <= 25 THEN 60
    ELSE IF 25 < pe_ratio /\ pe_ratio <= 35 THEN 40
    ELSE IF pe_ratio > 35 THEN 20
    ELSE 30

\* fundamental.py 73-80
EpsScore(eps) ==
    IF eps <= 0 THEN 20
    ELSE IF 0 < eps /\ eps <= 2 THEN 40
    ELSE IF 2 < eps /\ eps <= 5 THEN 60
    ELSE 80

\* fundamental.py 93-102: max(20, 50 + revenue_growth * 100) below zero
GrowthScore(revenue_growth) ==
    IF revenue_growth < 0 THEN Max(20, 50 + revenue_growth)
    ELSE IF revenue_growth < 5 THEN 50
    ELSE IF revenue_growth < 10 THEN 60
    ELSE IF revenue_growth < 20 THEN 75
    ELSE 90

\* fundamental.py 115-124
MarginScore(profit_margin) ==
    IF profit_margin < 0 THEN 20
    ELSE IF profit_margin < 5 THEN 40
    ELSE IF profit_margin < 10 THEN 60
    ELSE IF profit_margin < 20 THEN 80
    ELSE 90

MetricScore(key, v) ==
    IF key = "pe_ratio" THEN PeScore(v)
    ELSE IF key = "eps" THEN EpsScore(v)
    ELSE IF key = "revenue_growth" THEN GrowthScore(v)
    ELSE MarginScore(v)

\* The keys analyze looks at: configured and in the payload.
AnalysedMetrics(fundamental_data) ==
    {key \in fundamental_metrics : fundamental_data[key].kind # "absent"}

\* Comparing None with a number raises TypeError; analyze has no handler.
FundamentalRaises(fundamental_data) ==
    /\ fundamental_data.kind = "dict"
    /\ \E key \in AnalysedMetrics(fundamental_data) :
           fundamental_data[key].kind = "null"

RECURSIVE SumMetricScores(_, _)
SumMetricScores(fundamental_data, keys) ==
    IF keys = {} THEN 0
    ELSE LET key == CHOOSE k \in keys : TRUE
         IN  MetricScore(key, fundamental_data[key].v)
             + SumMetricScores(fundamental_data, keys \ {key})

FundamentalRaised ==
    [score |-> 0, metrics |-> {}, recommendation |-> "absent",
     raised |-> TRUE]

\* The mutant: the mean is taken without asking whether any ratio was
\* analysed, and an empty payload is no longer answered up front.
FundamentalAnalyzeUnguardedMean(fundamental_data) ==
    IF fundamental_data.kind = "dict" /\ FundamentalRaises(fundamental_data)
    THEN FundamentalRaised
    ELSE LET metrics_analysis ==
                 IF fundamental_data.kind = "none" THEN {}
                 ELSE AnalysedMetrics(fundamental_data)
             sum == SumMetricScores(fundamental_data, metrics_analysis)
             n == Max(Cardinality(metrics_analysis), 1)
         IN  [score |-> Round(10 * sum, n),
              metrics |-> metrics_analysis,
              recommendation |->
                  IF sum > 60 * n THEN "buy"
                  ELSE IF sum < 40 * n THEN "sell" ELSE "hold",
              raised |-> FALSE]

\* The mutant: a configured ratio that is not in the payload counts as a
\* neutral sub-score of 50.
FundamentalAnalyzeDefaulting(fundamental_data) ==
    IF fundamental_data.kind = "none"
    THEN [score |-> 500, metrics |-> {}, recommendation |-> "absent",
          raised |-> FALSE]
    ELSE IF FundamentalRaises(fundamental_data) THEN FundamentalRaised
    ELSE LET metrics_analysis == AnalysedMetrics(fundamental_data)
             n == Cardinality(fundamental_metrics)
             sum == SumMetricScores(fundamental_data, metrics_analysis)
                    + 50 * (n - Cardinality(metrics_analysis))
         IN  IF metrics_analysis = {}
             THEN [score |-> 500, metrics |-> {},
                   recommendation |-> "hold", raised |-> FALSE]
             ELSE [score |-> Round(10 * sum, n),
                   metrics |-> metrics_analysis,
                   recommendation |->
                       IF sum > 60 * n THEN "buy"
                       ELSE IF sum < 40 * n THEN "sell" ELSE "hold",
                   raised |-> FALSE]

\* FundamentalAnalyzer.analyze: metrics holds the keys of metrics_analysis.
FundamentalAnalyze(fundamental_data) ==
    IF fundamental_data.kind = "none"
    THEN [score |-> 500, metrics |-> {}, recommendation |-> "absent",
          raised |-> FALSE]
    ELSE IF FundamentalRaises(fundamental_data) THEN FundamentalRaised
    ELSE LET metrics_analysis == AnalysedMetrics(fundamental_data)
             sum == SumMetricScores(fundamental_data, metrics_analysis)
             n == Cardinality(metrics_analysis)
         IN  IF metrics_analysis = {}
             THEN [score |-> 500, metrics |-> {},
                   recommendation |-> "hold", raised |-> FALSE]
             ELSE [score |-> Round(10 * sum, n),
                   metrics |-> metrics_analysis,
                   recommendation |->
                       IF sum > 60 * n THEN "buy"
                       ELSE IF sum < 40 * n THEN "sell" ELSE "hold",
                   raised |-> FALSE]

\* One call of FundamentalAnalyzer.analyze.
AnalyzeFundamental(fundamental_data) ==
    /\ score_ev.op = "init"
    /\ score_ev' = [op |-> "fundamental", input |-> fundamental_data,
                    result |-> FundamentalAnalyze(fundamental_data)]
    /\ UNCHANGED <<baseVars, runVars, riskVars, sideVars>>

----------------------------------------------------------------------------
(* NewsAnalyzer, src/analysis/news.py, and SentimentAnalyzer,               *)
(* src/analysis/sentiment.py                                                *)
(* An article is held by its date (0: published_at cannot be parsed; 1: an *)
(* older day; 9: a day inside the last three) and by what the two text     *)
(* classifiers make of its text: the word count of _estimate_sentiment and *)
(* the TextBlob polarity, in hundredths.                                   *)

MaxArticles == 3

Texts == {[sentiment |-> "positive", polarity |-> 50],
          [sentiment |-> "negative", polarity |-> -100],
          [sentiment |-> "neutral", polarity |-> 0]}

PublishedAt == {0, 1, 9}

Articles == [published_at : PublishedAt, text : Texts]

\* The payloads: None or [] (length 0) and the lists of up to MaxArticles.
NewsPayloads ==
    UNION {[1..n -> Articles] : n \in 0..MaxArticles}

\* datetime.fromisoformat / pd.to_datetime raise on this article.
Malformed(article) == article.published_at = 0

\* sorted(news_data, key=date, reverse=True): stable, newest first.
RECURSIVE InsertNewestFirst(_, _)
InsertNewestFirst(sorted, x) ==
    IF sorted = <<>> THEN <<x>>
    ELSE IF Head(sorted).published_at >= x.published_at
         THEN <<Head(sorted)>> \o InsertNewestFirst(Tail(sorted), x)
         ELSE <<x>> \o sorted

RECURSIVE SortNewestFirst(_, _)
SortNewestFirst(news_data, i) ==
    IF i = 0 THEN <<>>
    ELSE InsertNewestFirst(SortNewestFirst(news_data, i - 1), news_data[i])

\* news.py 24
relevance_threshold == 6

\* _calculate_relevance, in tenths
CalculateRelevance(article) == 8

\* _calculate_impact, in tenths
CalculateImpact(article) ==
    IF article.text.sentiment = "positive" THEN 7
    ELSE IF article.text.sentiment = "negative" THEN -7
    ELSE 0

\* news.py 66: max(0.5, 1.0 - i*0.1), in tenths, i counted from 0
ArticleWeight(i) == Max(5, 10 - i)

RECURSIVE SumWeightedImpact(_, _)
SumWeightedImpact(analyzed_articles, i) ==
    IF i = 0 THEN 0
    ELSE SumWeightedImpact(analyzed_articles, i - 1)
         + CalculateImpact(analyzed_articles[i]) * ArticleWeight(i - 1)

RECURSIVE SumArticleWeights(_)
SumArticleWeights(i) ==
    IF i = 0 THEN 0 ELSE SumArticleWeights(i - 1) + ArticleWeight(i - 1)

NewsRaises(news_data) ==
    \E i \in 1..Len(news_data) : Malformed(news_data[i])

NewsRaised ==
    [score |-> 0, articles |-> 0, recommendation |-> "absent",
     raised |-> TRUE]

NewsNeutral ==
    [score |-> 500, articles |-> 0, recommendation |-> "absent",
     raised |-> FALSE]

\* NewsAnalyzer.analyze: score = 50 + weighted_impact * 25, in tenths
\* (500 * total_weight + 25 * sum(impact * weight)) / total_weight.
NewsAnalyze(news_data) ==
    IF news_data = <<>> THEN NewsNeutral
    ELSE IF NewsRaises(news_data) THEN NewsRaised
    ELSE LET sorted_news == SortNewestFirst(news_data, Len(news_data))
             analyzed_articles ==
                 SelectSeq(sorted_news,
                           LAMBDA a : CalculateRelevance(a)
                                          >= relevance_threshold)
             total_weight == SumArticleWeights(Len(analyzed_articles))
             num == 500 * total_weight
                    + 25 * SumWeightedImpact(analyzed_articles,
                                             Len(analyzed_articles))
         IN  IF analyzed_articles = <<>>
             THEN [score |-> 500, articles |-> 0,
                   recommendation |-> "hold", raised |-> FALSE]
             ELSE [score |-> Round(num, total_weight),
                   articles |-> Len(analyzed_articles),
                   recommendation |->
                       IF num > 600 * total_weight THEN "buy"
                       ELSE IF num < 400 * total_weight THEN "sell"
                       ELSE "hold",
                   raised |-> FALSE]

\* One call of NewsAnalyzer.analyze.
AnalyzeNews(news_data) ==
    /\ score_ev.op = "init"
    /\ score_ev' = [op |-> "news", input |-> news_data,
                    result |-> NewsAnalyze(news_data)]
    /\ UNCHANGED <<baseVars, runVars, riskVars, sideVars>>

\* sentiment.py 28-31
min_articles == 3

recent_weight == 7

older_weight == 3

\* The articles on one side of cutoff_date.
RecentArticles(news_data) ==
    SelectSeq(news_data, LAMBDA a : a.published_at >= 9)

OlderArticles(news_data) ==
    SelectSeq(news_data, LAMBDA a : a.published_at < 9)

RECURSIVE SumPolarity(_, _)
SumPolarity(articles, i) ==
    IF i = 0 THEN 0
    ELSE SumPolarity(articles, i - 1) + articles[i].text.polarity

\* _get_default_result
SentimentDefault ==
    [score |-> 500, recommendation |-> "hold", total_articles |-> 0,
     raised |-> FALSE]

\* sentiment.py 59-72, in tenths: (weighted_sentiment + 1) * 50 with
\* weighted_sentiment = recent mean * 0.7 + older mean * 0.3; the mean of
\* an empty side is 0.
SentimentScore(news_data) ==
    LET recent_articles == RecentArticles(news_data)
        older_articles == OlderArticles(news_data)
        nr == Max(1, Len(recent_articles))
        no == Max(1, Len(older_articles))
        sr == SumPolarity(recent_articles, Len(recent_articles))
        so == SumPolarity(older_articles, Len(older_articles))
    IN  Round(1000 * nr * no + recent_weight * sr * no
              + older_weight * so * nr, 2 * nr * no)

\* _get_recommendation
SentimentRecommendation(score) ==
    IF score >= 700 THEN "buy" ELSE IF score <= 300 THEN "sell" ELSE "hold"

\* The scorer without the article threshold: only an empty list is refused.
SentimentAnalyzeAnyCount(news_data) ==
    IF news_data = <<>>
    THEN SentimentDefault
    ELSE IF \E i \in 1..Len(news_data) : Malformed(news_data[i])
    THEN SentimentDefault
    ELSE LET sentiment_score == SentimentScore(news_data)
         IN  [score |-> sentiment_score,
              recommendation |-> SentimentRecommendation(sentiment_score),
              total_articles |-> Len(news_data), raised |-> FALSE]

\* SentimentAnalyzer.analyze
SentimentAnalyze(news_data) ==
    IF news_data = <<>> \/ Len(news_data) < min_articles
    THEN SentimentDefault
    ELSE IF \E i \in 1..Len(news_data) : Malformed(news_data[i])
    THEN SentimentDefault
    ELSE LET sentiment_score == SentimentScore(news_data)
         IN  [score |-> sentiment_score,
              recommendation |-> SentimentRecommendation(sentiment_score),
              total_articles |-> Len(news_data), raised |-> FALSE]

\* One call of SentimentAnalyzer.analyze.
AnalyzeSentiment(news_data) ==
    /\ score_ev.op = "init"
    /\ score_ev' = [op |-> "sentiment", input |-> news_data,
                    result |-> SentimentAnalyze(news_data)]
    /\ UNCHANGED <<baseVars, runVars, riskVars, sideVars>>

----------------------------------------------------------------------------
(* One run: DataCollector.collect_all (src/data_sources/collector.py),      *)
(* AnalysisEngine.analyze_all (src/analysis/analyzer.py) and                *)
(* RecommendationEngine.generate_recommendations.  A symbol is its place   *)
(* in the list of symbols.                                                 *)

DataCategories == {"market_data", "news", "fundamentals"}

\* What collect_market_data / collect_news / collect_fundamentals do for
\* one symbol: return a payload or raise.
MarketOutcomes ==
    {[raised |-> FALSE,
      data |-> Frame("many", TRUE, TRUE, "low", "buy", "buy", "neutral")],
     [raised |-> TRUE, data |-> EmptyFrame]}

NewsOutcomes ==
    {[raised |-> FALSE,
      data |-> <<[published_at |-> 9,
                  text |-> [sentiment |-> "positive", polarity |-> 50]]>>],
     [raised |-> FALSE,
      data |-> <<[published_at |-> 0,
                  text |-> [sentiment |-> "positive", polarity |-> 50]]>>],
     [raised |-> TRUE, data |-> <<>>]}

FundamentalsOutcomes ==
    {[raised |-> FALSE,
      data |-> [NoFundamentals EXCEPT !.kind = "dict", !.pe_ratio = Num(15)]],
     [raised |-> FALSE,
      data |-> [NoFundamentals EXCEPT !.kind = "dict", !.pe_ratio = NullField]],
     [raised |-> TRUE, data |-> NoFundamentals]}

SymbolOutcomes ==
    [market_data : MarketOutcomes, news : NewsOutcomes,
     fundamentals : FundamentalsOutcomes]

\* _collect_symbol_data: the data of the returned tuple.  An exception is
\* logged and None returned in its place; None is held as the payload the
\* analyzers take it for (pd.DataFrame(None), `not news_data`,
\* `not fundamental_data`), with the flag none set.
CollectSymbolData(outcome) ==
    [none |-> outcome.raised, data |-> outcome.data]

\* collect_all: result[data_type][symbol] for every symbol of the list.
CollectAll(outcomes) ==
    /\ run_pc = "start"
    /\ run_data' = [i \in 1..Len(outcomes) |->
                       [c \in DataCategories |->
                           CollectSymbolData(outcomes[i][c])]]
    /\ run_pc' = "collected"
    /\ UNCHANGED <<run_results, run_recs, baseVars, scoreVars, riskVars,
                   sideVars>>

\* A scorer's result as the engine reads it: 'score', and for the
\* fundamental result metrics.pe_ratio.value; no scorer writes 'signals'.
AsDimension(result) == Result(result.score)

FundamentalDimension(fundamental_data, result) ==
    IF "pe_ratio" \in result.metrics
    THEN ResultV(result.score, fundamental_data.pe_ratio.v)
    ELSE Result(result.score)

\* analyzer.py 51-67: the four analyses of one symbol.
SymbolAnalysis(collected) ==
    LET technical_analysis == TechnicalAnalyze(collected.market_data.data)
        news_analysis == NewsAnalyze(collected.news.data)
        sentiment_analysis == SentimentAnalyze(collected.news.data)
        fundamental_analysis ==
            FundamentalAnalyze(collected.fundamentals.data)
    IN  [raised |-> \/ technical_analysis.raised
                    \/ news_analysis.raised
                    \/ sentiment_analysis.raised
                    \/ fundamental_analysis.raised,
         analysis |->
             [technical |-> AsDimension(technical_analysis),
              news |-> AsDimension(news_analysis),
              sentiment |-> AsDimension(sentiment_analysis),
              fundamental |->
                  FundamentalDimension(collected.fundamentals.data,
                                       fundamental_analysis)]]

\* analyze_all, the loop: a symbol whose analysis raises gets no entry.
RECURSIVE AnalyzeSymbols(_, _)
AnalyzeSymbols(market_data, i) ==
    IF i = 0 THEN <<>>
    ELSE LET a == SymbolAnalysis(market_data[i])
         IN  IF a.raised THEN AnalyzeSymbols(market_data, i - 1)
             ELSE Append(AnalyzeSymbols(market_data, i - 1),
                         [symbol |-> i, analysis |-> a.analysis])

AnalyzeAll ==
    /\ run_pc = "collected"
    /\ run_results' = AnalyzeSymbols(run_data, Len(run_data))
    /\ run_pc' = "analysed"
    /\ UNCHANGED <<run_data, run_recs, baseVars, scoreVars, riskVars,
                   sideVars>>

\* engine.py 45-88 over the items of analyze_all's dict.
RECURSIVE RecommendItems(_, _)
RecommendItems(items, i) ==
    IF i = 0 THEN <<>>
    ELSE IF Raises(items[i].analysis) THEN RecommendItems(items, i - 1)
    ELSE Append(RecommendItems(items, i - 1),
                MakeRecommendation(items[i].symbol, items[i].analysis))

RunRecommend ==
    /\ run_pc = "analysed"
    /\ run_recs' = SortedRecommendations(
                       RecommendItems(run_results, Len(run_results)))
    /\ run_pc' = "done"
    /\ UNCHANGED <<run_data, run_results, baseVars, scoreVars, riskVars,
                   sideVars>>

(***************************************************************************)
(* DataCollector.collect_market_data, collect_news and collect_fundamentals *)
(* under functools.lru_cache, src/data_sources/collector.py                 *)
(* lru_cache wraps the coroutine function, so what it keeps per (self,      *)
(* symbol) is the coroutine object the first call made.  A coroutine object *)
(* is awaited once: awaiting it again raises RuntimeError, while it runs    *)
(* ("coroutine is being awaited already") and after it has finished         *)
(* ("cannot reuse already awaited coroutine").                              *)

\* collector.py 123, 140, 163
maxsize == 100

MaxCollects == 3

\* What the provider behind a collect_* method does when the coroutine
\* runs: return a payload or raise.
ProviderOutcomes ==
    {[raised |-> FALSE, data |-> "payload_a"],
     [raised |-> FALSE, data |-> "payload_b"],
     [raised |-> TRUE, data |-> "none"]}

\* lru_cache: the symbols a method holds a coroutine for, least recently
\* used first.
Hit(data_type, symbol) ==
    \E i \in 1..Len(coroutines[data_type]) :
        coroutines[data_type][i] = symbol

Touch(keys, symbol) ==
    LET others == SelectSeq(keys, LAMBDA k : k # symbol)
        kept == IF Len(others) >= maxsize THEN Tail(others) ELSE others
    IN  Append(kept, symbol)

\* collect_market_data / collect_news / collect_fundamentals called and
\* awaited: a hit hands out the coroutine of the first call, and the await
\* raises; a miss makes the coroutine and runs it.
CollectCached(data_type, symbol, outcome) ==
    IF Hit(data_type, symbol)
    THEN [raised |-> TRUE, data |-> "none"]
    ELSE outcome

\* One call of _collect_symbol_data: the data of the returned tuple is None
\* when the await raised.
CollectSymbolDataCall(data_type, symbol, outcome) ==
    /\ Len(collect_log) < MaxCollects
    /\ LET hit == Hit(data_type, symbol)
           got == CollectCached(data_type, symbol, outcome)
       IN  /\ collect_log' =
                  Append(collect_log,
                         [data_type |-> data_type, symbol |-> symbol,
                          hit |-> hit, failed |-> got.raised,
                          data |-> IF got.raised THEN "none" ELSE got.data])
           /\ coroutines' =
                  [coroutines EXCEPT
                       ![data_type] = Touch(coroutines[data_type], symbol)]
    /\ UNCHANGED <<baseVars, scoreVars, runVars, riskVars, tradeVars,
                   loopVars>>

(***************************************************************************)
(* RiskManager, src/risk_management/risk_manager.py                        *)
(* Volatility, drawdown, VaR, momentum and trend are held in thousandths   *)
(* (0.15 is 150), beta, Sharpe and the fundamental ratios in hundredths,   *)
(* sub-scores in points and risk scores in tenths of a point.  A value the *)
(* code computes by division is held as the fraction <<n, d>> in lowest    *)
(* terms, d > 0.                                                           *)
(***************************************************************************)
RECURSIVE Gcd(_, _)
Gcd(a, b) == IF b = 0 THEN a ELSE Gcd(b, a % b)

Frac(n, d) ==
    LET g == Gcd(Abs(n), d)
    IN  IF g = 0 THEN <<0, 1>> ELSE <<n \div g, d \div g>>

FracAdd(a, b) == Frac(a[1] * b[2] + b[1] * a[2], a[2] * b[2])

FracMul(a, b) == Frac(a[1] * b[1], a[2] * b[2])

FracLess(a, b) == a[1] * b[2] < b[1] * a[2]

\* min(a, b) and max(a, b) of two numbers, neither of them NaN
FracMin(a, b) == IF FracLess(b, a) THEN b ELSE a

FracMax(a, b) == IF FracLess(a, b) THEN b ELSE a

FracAbs(a) == <<Abs(a[1]), a[2]>>

\* risk_manager.py 288-308
NormalizeVolatility(volatility) ==
    IF volatility <= 150 THEN 20
    ELSE IF volatility <= 250 THEN 40
    ELSE IF volatility <= 350 THEN 60
    ELSE IF volatility <= 450 THEN 80
    ELSE 100

\* The beta table made to rise band by band as the other tables do.
NormalizeBetaRising(beta) ==
    IF beta < 50 THEN 20
    ELSE IF beta <= 80 THEN 30
    ELSE IF beta <= 120 THEN 40
    ELSE IF beta <= 150 THEN 60
    ELSE 80

\* risk_manager.py 310-330
NormalizeBeta(beta) ==
    IF beta < 50 THEN 70
    ELSE IF beta <= 80 THEN 40
    ELSE IF beta <= 120 THEN 30
    ELSE IF beta <= 150 THEN 60
    ELSE 80

\* risk_manager.py 332-352: sharpe is a fraction in units
NormalizeSharpe(sharpe) ==
    IF ~FracLess(<<0, 1>>, sharpe) THEN 80
    ELSE IF ~FracLess(<<1, 2>>, sharpe) THEN 60
    ELSE IF ~FracLess(<<1, 1>>, sharpe) THEN 40
    ELSE IF ~FracLess(<<3, 2>>, sharpe) THEN 30
    ELSE 20

\* The mutant: the drawdown is read off the table of the Sharpe ratio, which
\* falls as its argument grows.
NormalizeDrawdownFalling(drawdown) ==
    IF drawdown <= 100 THEN 80
    ELSE IF drawdown <= 200 THEN 60
    ELSE IF drawdown <= 300 THEN 40
    ELSE IF drawdown <= 400 THEN 30
    ELSE 20

\* risk_manager.py 354-374
NormalizeDrawdown(drawdown) ==
    IF drawdown <= 100 THEN 20
    ELSE IF drawdown <= 200 THEN 40
    ELSE IF drawdown <= 300 THEN 60
    ELSE IF drawdown <= 400 THEN 80
    ELSE 100

\* risk_manager.py 376-396
NormalizeVar(var) ==
    IF var <= 10 THEN 20
    ELSE IF var <= 20 THEN 40
    ELSE IF var <= 30 THEN 60
    ELSE IF var <= 40 THEN 80
    ELSE 100

\* fundamental_data.get(key) or default: a missing key, None and 0 all give
\* the default.
GetOr(field, default) ==
    IF field.kind = "num" /\ field.v # 0 THEN field.v ELSE default

\* The fundamental payload of the risk manager: None, or a dict of ratios.
NoSnapshot ==
    [kind |-> "none", debt_to_equity |-> AbsentField,
     current_ratio |-> AbsentField, profit_margin |-> AbsentField,
     trailing_pe |-> AbsentField, price_to_book |-> AbsentField,
     return_on_equity |-> AbsentField]

Snapshots ==
    {NoSnapshot} \cup
    [kind : {"dict"},
     debt_to_equity : {AbsentField, NullField, Num(-1000), Num(300)},
     current_ratio : {AbsentField, Num(10000)},
     profit_margin : {AbsentField, Num(-10), Num(20)},
     trailing_pe : {AbsentField, NullField, Num(2500)},
     price_to_book : {AbsentField, Num(400)},
     return_on_equity : {AbsentField}]

\* risk_manager.py 398-424: a payload of None has no get and the handler
\* returns 50.
CalculateFundamentalRisk(fundamental_data) ==
    IF fundamental_data.kind = "none" THEN <<50, 1>>
    ELSE
        LET debt_equity == GetOr(fundamental_data.debt_to_equity, 100)
            current_ratio == GetOr(fundamental_data.current_ratio, 150)
            profit_margin == GetOr(fundamental_data.profit_margin, 10)
            debt_score ==
                IF debt_equity > 200 THEN <<100, 1>>
                ELSE Frac(debt_equity, 2)
            liquidity_score ==
                IF current_ratio < 100 THEN <<100, 1>>
                ELSE Frac(10000, current_ratio)
            profit_score ==
                IF profit_margin < 0 THEN <<100, 1>>
                ELSE <<100 - profit_margin, 1>>
        IN  FracMul(FracAdd(FracAdd(debt_score, liquidity_score),
                            profit_score), <<1, 3>>)

\* risk_manager.py 235-286, RiskManager._calculate_risk_score: the weights
\* are held in hundredths, the result in tenths.  round(x, 1) is taken of
\* the exact sum; in floating point an exact tie may fall to either side.
CalculateRiskScoreRM(volatility, beta, sharpe, max_drawdown, var, fundamental_data) ==
    LET vol_score == NormalizeVolatility(volatility)
        beta_score == NormalizeBeta(beta)
        sharpe_score == NormalizeSharpe(sharpe)
        drawdown_score == NormalizeDrawdown(max_drawdown)
        var_score == NormalizeVar(var)
        fundamental_score == CalculateFundamentalRisk(fundamental_data)
        risk_score ==
            FracAdd(<<vol_score * 25 + beta_score * 15 + sharpe_score * 20
                      + drawdown_score * 15 + var_score * 10, 100>>,
                    FracMul(fundamental_score, <<15, 100>>))
    IN  Round(risk_score[1] * 10, risk_score[2])

\* The arguments _calculate_risk_score is called with.
RiskVolatilities == {150, 151, 350, 451}

RiskBetas == {50, 100, 200}

RiskSharpes == {<<-1, 2>>, <<2, 1>>}

RiskDrawdowns == {100, 101, 401}

RiskVars == {10, 11, 41}

RiskSnapshots ==
    {NoSnapshot,
     [NoSnapshot EXCEPT !.kind = "dict"],
     [NoSnapshot EXCEPT !.kind = "dict", !.debt_to_equity = Num(300),
                        !.profit_margin = Num(-10)]}

\* One call of _calculate_risk_score; before is the call made before it.
ScoreRisk(volatility, beta, sharpe, max_drawdown, var, fundamental_data) ==
    /\ risk_ev' =
           [op |-> "risk_score",
            input |-> [volatility |-> volatility, beta |-> beta,
                       sharpe |-> sharpe, max_drawdown |-> max_drawdown,
                       var |-> var, fundamental_data |-> fundamental_data],
            result |-> CalculateRiskScoreRM(volatility, beta, sharpe,
                                            max_drawdown, var,
                                            fundamental_data),
            before |-> IF risk_ev.op = "risk_score"
                       THEN [op |-> "risk_score", input |-> risk_ev.input,
                             result |-> risk_ev.result]
                       ELSE [op |-> "init", input |-> <<>>,
                             result |-> <<>>]]
    /\ UNCHANGED <<baseVars, scoreVars, runVars, sideVars>>

\* The raw metrics with a band table of their own.
RawMetrics == {"volatility", "beta", "sharpe", "max_drawdown", "var"}

\* The values a raw metric takes, on and around the edges of its bands:
\* volatility, drawdown and VaR in thousandths, beta (which _calculate_beta
\* keeps in [0.5, 2.0]) and the Sharpe ratio in hundredths.
RawValues(metric) ==
    CASE metric = "volatility" -> {0, 150, 151, 250, 251, 350, 351, 450, 451}
      [] metric = "beta" -> {50, 80, 81, 100, 120, 121, 150, 151, 200}
      [] metric = "sharpe" -> {-50, 0, 1, 50, 51, 100, 101, 150, 151}
      [] metric = "max_drawdown" ->
             {0, 100, 101, 200, 201, 300, 301, 400, 401}
      [] metric = "var" -> {0, 10, 11, 20, 21, 30, 31, 40, 41}

\* _normalize_volatility, _normalize_beta, _normalize_sharpe,
\* _normalize_drawdown or _normalize_var as _calculate_risk_score calls it
\* on the raw metric.
Normalize(metric, raw) ==
    CASE metric = "volatility" -> NormalizeVolatility(raw)
      [] metric = "beta" -> NormalizeBeta(raw)
      [] metric = "sharpe" -> NormalizeSharpe(Frac(raw, 100))
      [] metric = "max_drawdown" -> NormalizeDrawdown(raw)
      [] metric = "var" -> NormalizeVar(raw)

\* One normalisation of a raw metric; before is the one made before it.
NormalizeCall(metric, raw) ==
    /\ risk_ev.op \in {"init", "normalize"}
    /\ risk_ev' =
           [op |-> "normalize", metric |-> metric, raw |-> raw,
            score |-> Normalize(metric, raw),
            before |-> IF risk_ev.op = "normalize"
                       THEN [metric |-> risk_ev.metric, raw |-> risk_ev.raw,
                             score |-> risk_ev.score]
                       ELSE [metric |-> "none", raw |-> 0, score |-> 0]]
    /\ UNCHANGED <<baseVars, scoreVars, runVars, sideVars>>

\* A price frame as the risk manager sees it: "missing" is None or a frame
\* without a Close column, "short" has fewer than the 50 rows of the long
\* moving average, "long" has them.  momentum is the mean daily return times
\* 252, volatility the standard deviation times sqrt(252).
MissingFrame ==
    [kind |-> "missing", volatility |-> 0, momentum |-> 0,
     max_drawdown |-> 0, var |-> 0, trend |-> 0]

PriceFrames ==
    {MissingFrame} \cup
    [kind : {"short"}, volatility : {100, 300, 500},
     momentum : {-200, 100, 1600, 2400}, max_drawdown : {50, 450},
     var : {5, 45}, trend : {0}] \cup
    [kind : {"long"}, volatility : {100, 300, 500},
     momentum : {-200, 100, 1600, 2400}, max_drawdown : {50, 450},
     var : {5, 45}, trend : {-300, 1200}]

\* A floating-point value: NaN, or the number v.
NaN == [nan |-> TRUE, v |-> <<0, 1>>]

Real(v) == [nan |-> FALSE, v |-> v]

\* max(min(x, 1.0), lo): both comparisons are false of NaN, which is
\* returned as it came.
Clamp(x, lo) ==
    IF x.nan THEN NaN ELSE Real(FracMax(FracMin(x.v, <<1, 1>>), lo))

\* n/d * 10^k as <<whole part, remainder>>, by long division
RECURSIVE LongDiv(_, _, _)
LongDiv(n, d, k) ==
    IF k = 0 THEN <<n \div d, n % d>>
    ELSE LET p == LongDiv(n, d, k - 1)
         IN  <<p[1] * 10 + (p[2] * 10) \div d, (p[2] * 10) % d>>

\* round(x * 10^k) of the fraction x, an exact tie to the even neighbour
RoundScaled(x, k) ==
    LET p == LongDiv(x[1], x[2], k)
    IN  IF 2 * p[2] < x[2] THEN p[1]
        ELSE IF 2 * p[2] > x[2] THEN p[1] + 1
        ELSE IF p[1] % 2 = 0 THEN p[1] ELSE p[1] + 1

\* round(x * 100, 1), in tenths
Percent(x) ==
    IF x.nan THEN [nan |-> TRUE, v |-> 0]
    ELSE [nan |-> FALSE, v |-> RoundScaled(x.v, 3)]

\* risk_manager.py 109-130
CalculateVolatility(market_data) ==
    IF market_data.kind = "missing" THEN 300 ELSE market_data.volatility

\* risk_manager.py 132-154: mean / std of the daily returns, which is
\* momentum / (volatility * sqrt(252)); sqrt(252) is taken as 127/8.
CalculateBeta(market_data) ==
    IF market_data.kind = "missing" THEN 100
    ELSE LET beta == Round(market_data.momentum * 800,
                           market_data.volatility * 127)
         IN  Max(IF beta < 200 THEN beta ELSE 200, 50)

\* risk_manager.py 156-184
CalculateSharpeRatio(market_data) ==
    IF market_data.kind = "missing" THEN <<0, 1>>
    ELSE Frac(market_data.momentum - 20, market_data.volatility)

\* risk_manager.py 186-210
CalculateMaxDrawdown(market_data) ==
    IF market_data.kind = "missing" THEN 200 ELSE market_data.max_drawdown

\* risk_manager.py 212-233
CalculateVar(market_data) ==
    IF market_data.kind = "missing" THEN 20 ELSE market_data.var

\* risk_manager.py 461-488: with fewer than 50 rows the 50-day average is
\* NaN and so is the trend; no exception is raised.
CalculateTrendStrength(market_data) ==
    IF market_data.kind = "missing" THEN Real(<<0, 1>>)
    ELSE IF market_data.kind = "short" THEN NaN
    ELSE Clamp(Real(Frac(market_data.trend, 1000)), <<-1, 1>>)

\* fundamental_data.get(key, default): None stays None.
GetDefault(field, default) ==
    IF field.kind = "absent" THEN Num(default) ELSE field

\* The four ratios the strength and the potential read, and whether one of
\* them is None, which makes the arithmetic raise.
Valuation(fundamental_data) ==
    [pe_ratio |-> GetDefault(fundamental_data.trailing_pe, 1500),
     pb_ratio |-> GetDefault(fundamental_data.price_to_book, 200),
     profit_margin |-> GetDefault(fundamental_data.profit_margin, 10),
     roe |-> GetDefault(fundamental_data.return_on_equity, 15)]

ValuationRaises(fundamental_data) ==
    \/ fundamental_data.kind = "none"
    \/ \E k \in DOMAIN Valuation(fundamental_data) :
           Valuation(fundamental_data)[k].kind = "null"

\* risk_manager.py 490-518
CalculateFundamentalStrength(fundamental_data) ==
    IF ValuationRaises(fundamental_data) THEN <<1, 2>>
    ELSE
        LET r == Valuation(fundamental_data)
            pe_score == IF r.pe_ratio.v < 1500 THEN <<1, 1>>
                        ELSE Frac(2000, r.pe_ratio.v)
            pb_score == IF r.pb_ratio.v < 200 THEN <<1, 1>>
                        ELSE Frac(300, r.pb_ratio.v)
            margin_score == FracMin(Frac(r.profit_margin.v * 5, 100), <<1, 1>>)
            roe_score == FracMin(Frac(r.roe.v * 3, 100), <<1, 1>>)
        IN  FracMul(FracAdd(FracAdd(pe_score, pb_score),
                            FracAdd(margin_score, roe_score)), <<1, 4>>)

\* risk_manager.py 592-620
CalculateFundamentalPotential(fundamental_data) ==
    IF ValuationRaises(fundamental_data) THEN <<1, 10>>
    ELSE
        LET r == Valuation(fundamental_data)
            pe_potential == IF r.pe_ratio.v < 1200 THEN <<1, 1>>
                            ELSE Frac(1500, r.pe_ratio.v)
            pb_potential == IF r.pb_ratio.v < 150 THEN <<1, 1>>
                            ELSE Frac(200, r.pb_ratio.v)
            margin_potential ==
                FracMin(Frac(r.profit_margin.v * 4, 100), <<1, 1>>)
            roe_potential == FracMin(Frac(r.roe.v * 5, 200), <<1, 1>>)
        IN  FracMul(FracAdd(FracAdd(pe_potential, pb_potential),
                            FracAdd(margin_potential, roe_potential)),
                    <<1, 4>>)

\* risk_manager.py 556-590
CalculateTechnicalPotential(market_data) ==
    IF market_data.kind = "missing" THEN Real(<<1, 10>>)
    ELSE
        LET momentum == Frac(market_data.momentum, 1000)
            trend == CalculateTrendStrength(market_data)
            vol_adjusted_potential ==
                Frac(market_data.momentum, market_data.volatility)
        IN  IF trend.nan THEN NaN
            ELSE Clamp(Real(FracAdd(
                     FracAdd(FracMul(FracAbs(momentum), <<4, 10>>),
                             FracMul(FracAbs(trend.v), <<4, 10>>)),
                     FracMul(FracAbs(vol_adjusted_potential), <<2, 10>>))),
                       <<0, 1>>)

\* risk_manager.py 426-459
CalculateSuccessProbability(risk_score, market_data, fundamental_data) ==
    LET trend == CalculateTrendStrength(market_data)
        fundamental_strength ==
            CalculateFundamentalStrength(fundamental_data)
        base_probability == Frac(1000 - risk_score, 1000)
    IN  IF trend.nan THEN NaN
        ELSE Clamp(Real(FracAdd(
                 FracAdd(base_probability, FracMul(trend.v, <<3, 10>>)),
                 FracMul(fundamental_strength, <<2, 10>>))), <<0, 1>>)

\* risk_manager.py 520-554
CalculatePotentialReturn(market_data, fundamental_data, risk_score) ==
    LET technical_potential == CalculateTechnicalPotential(market_data)
        fundamental_potential ==
            CalculateFundamentalPotential(fundamental_data)
        risk_adjustment == Frac(2000 - risk_score, 2000)
    IN  IF technical_potential.nan THEN NaN
        ELSE Clamp(Real(FracMul(
                 FracAdd(FracMul(technical_potential.v, <<1, 2>>),
                         FracMul(fundamental_potential, <<1, 2>>)),
                 risk_adjustment)), <<0, 1>>)

\* risk_manager.py 622-642: the share of the portfolio, max_position_size
\* in thousandths.
CalculatePositionSize(max_position_size, risk_score) ==
    LET risk_factor == Frac(1000 - risk_score, 1000)
        position_size == FracMul(<<max_position_size, 1000>>, risk_factor)
    IN  FracMin(position_size, <<max_position_size, 1000>>)

\* risk_manager.py 26-30: config.get('max_position_size', 0.10)
max_position_sizes == {100, 250}

\* risk_manager.py 644-670
GetDefaultAssessment ==
    [risk_score |-> 500,
     success_probability |-> [nan |-> FALSE, v |-> 500],
     potential_return |-> [nan |-> FALSE, v |-> 100],
     max_position_size |-> 500,
     raised |-> FALSE]

\* The mutant: a missing price series is answered by the default assessment.
AssessRiskDefaultOnMissing(max_position_size, market_data, fundamental_data) ==
    IF market_data.kind = "missing" THEN GetDefaultAssessment
    ELSE
        LET risk_score ==
                CalculateRiskScoreRM(CalculateVolatility(market_data),
                                     CalculateBeta(market_data),
                                     CalculateSharpeRatio(market_data),
                                     CalculateMaxDrawdown(market_data),
                                     CalculateVar(market_data),
                                     fundamental_data)
            position_size == CalculatePositionSize(max_position_size,
                                                   risk_score)
        IN  [risk_score |-> risk_score,
             success_probability |->
                 Percent(CalculateSuccessProbability(
                             risk_score, market_data, fundamental_data)),
             potential_return |->
                 Percent(CalculatePotentialReturn(
                             market_data, fundamental_data, risk_score)),
             max_position_size |->
                 RoundScaled(position_size, 4),
             raised |-> FALSE]

\* risk_manager.py 32-107, RiskManager(config).assess_risk: every stage
\* catches its own exceptions and answers with its constant, so nothing
\* reaches the handler of lines 105-107 and nothing is raised.  Percentages
\* are in tenths, the position size in hundredths of a per cent.
AssessRisk(max_position_size, market_data, fundamental_data) ==
    LET risk_score ==
            CalculateRiskScoreRM(CalculateVolatility(market_data),
                                 CalculateBeta(market_data),
                                 CalculateSharpeRatio(market_data),
                                 CalculateMaxDrawdown(market_data),
                                 CalculateVar(market_data),
                                 fundamental_data)
        position_size == CalculatePositionSize(max_position_size,
                                               risk_score)
    IN  [risk_score |-> risk_score,
         success_probability |->
             Percent(CalculateSuccessProbability(
                         risk_score, market_data, fundamental_data)),
         potential_return |->
             Percent(CalculatePotentialReturn(
                         market_data, fundamental_data, risk_score)),
         max_position_size |->
             RoundScaled(position_size, 4),
         raised |-> FALSE]

\* One call of assess_risk on a risk manager built from the configuration.
AssessRiskCall(max_position_size, market_data, fundamental_data) ==
    /\ risk_ev' =
           [op |-> "assess_risk",
            input |-> [max_position_size |-> max_position_size,
                       market_data |-> market_data,
                       fundamental_data |-> fundamental_data],
            result |-> AssessRisk(max_position_size, market_data,
                                  fundamental_data)]
    /\ UNCHANGED <<baseVars, scoreVars, runVars, sideVars>>

----------------------------------------------------------------------------
(* RiskManager, src/core/risk.py                                          *)
(* Portfolio values are whole amounts, the tracked loss is a fraction, a  *)
(* risk score and a success probability are in tenths.  A key a dict does *)
(* not have is the value NoKey.                                           *)

NoKey == -1

\* risk.py 27-29: the defaults of the risk configuration
core_max_position_size == <<1, 10>>

core_max_daily_loss == <<1, 50>>

core_max_drawdown == <<1, 10>>

\* Values on both sides of the loss limit and of the drawdown limit of a
\* portfolio that started at and peaked at 100.
PortfolioValues == {0, 89, 90, 97, 98, 100}

TradeRecommendations ==
    [risk_score : {NoKey, 500, 800, 801},
     success_probability : {NoKey, 600, 1500}]

TradePortfolios == [total_value : PortfolioValues \cup {NoKey}]

\* _calculate_position_size, called with both keys present.
CorePositionSize(recommendation) ==
    LET base_size ==
            FracMin(<<1, 1>>, Frac(recommendation.success_probability, 1000))
        risk_adjustment == Frac(1000 - recommendation.risk_score, 1000)
        position_size == FracMul(base_size, risk_adjustment)
    IN  FracMin(position_size, core_max_position_size)

\* validate_trade: what the call returns, or the KeyError it lets through.
ValidateTradeResult(recommendation, portfolio) ==
    LET risk_score == IF recommendation.risk_score = NoKey THEN 1000
                      ELSE recommendation.risk_score
        current_value == IF portfolio.total_value = NoKey THEN 0
                         ELSE portfolio.total_value
        Returns(valid, why) == [raised |-> FALSE, valid |-> valid,
                                why |-> why]
    IN  IF risk_score > 800 THEN Returns(FALSE, "risk_score")
        ELSE IF recommendation.success_probability = NoKey
        THEN [raised |-> TRUE, valid |-> FALSE, why |-> "KeyError"]
        ELSE IF FracLess(core_max_position_size,
                         CorePositionSize(recommendation))
        THEN Returns(FALSE, "position_size")
        ELSE IF FracLess(core_max_daily_loss, daily_loss)
        THEN Returns(FALSE, "daily_loss")
        ELSE IF /\ current_value > 0
                /\ peak_portfolio_value > 0
                /\ FracLess(core_max_drawdown,
                            Frac(peak_portfolio_value - current_value,
                                 peak_portfolio_value))
        THEN Returns(FALSE, "drawdown")
        ELSE Returns(TRUE, "approved")

\* One call of validate_trade; the manager's fields are only read.
ValidateTrade(recommendation, portfolio) ==
    /\ trade_ev' = [op |-> "validate_trade",
                    recommendation |-> recommendation,
                    portfolio |-> portfolio,
                    result |-> ValidateTradeResult(recommendation, portfolio)]
    /\ UNCHANGED <<daily_loss, daily_start_value, peak_portfolio_value>>
    /\ UNCHANGED <<baseVars, scoreVars, runVars, riskVars, collectVars,
                   loopVars>>

\* update_daily_metrics
UpdateDailyMetrics(portfolio_value) ==
    /\ peak_portfolio_value' = Max(peak_portfolio_value, portfolio_value)
    /\ IF daily_start_value = 0
       THEN /\ daily_start_value' = portfolio_value
            /\ UNCHANGED daily_loss
       ELSE /\ daily_loss' = Frac(daily_start_value - portfolio_value,
                                  daily_start_value)
            /\ UNCHANGED daily_start_value
    /\ trade_ev' = [op |-> "update_daily_metrics",
                    portfolio_value |-> portfolio_value]
    /\ UNCHANGED <<baseVars, scoreVars, runVars, riskVars, collectVars,
                   loopVars>>

\* reset_daily_metrics
ResetDailyMetrics ==
    /\ daily_loss' = <<0, 1>>
    /\ daily_start_value' = 0
    /\ trade_ev' = [op |-> "reset_daily_metrics"]
    /\ UNCHANGED peak_portfolio_value
    /\ UNCHANGED <<baseVars, scoreVars, runVars, riskVars, collectVars,
                   loopVars>>

----------------------------------------------------------------------------
(* MonitoringSystem, src/monitoring/monitoring_system.py: the loop thread  *)
(* One thread calls start_monitoring and stop_monitoring.  A loop thread   *)
(* is at the test of `while self.is_monitoring`, inside time.sleep, or     *)
(* done; the threads are numbered in the order they are started.           *)

MaxLoopThreads == 3

MaxChecks == 2

\* monitoring_system.py 33
monitoring_interval == 60

\* monitoring_system.py 66
join_timeout == 5

LoopThreads == 1..MaxLoopThreads

Alive(t) == loop_pc[t] \in {"test", "sleep"}

\* start_monitoring: a thread is made and started unless the flag is set.
StartMonitoring ==
    /\ ctl_pc = "idle"
    /\ IF ~is_monitoring
       THEN /\ \E t \in LoopThreads : loop_pc[t] = "unstarted"
            /\ LET t == CHOOSE u \in LoopThreads :
                            /\ loop_pc[u] = "unstarted"
                            /\ \A v \in 1..(u - 1) : loop_pc[v] # "unstarted"
               IN  /\ is_monitoring' = TRUE
                   /\ monitoring_thread' = t
                   /\ loop_pc' = [loop_pc EXCEPT ![t] = "test"]
                   /\ loop_ev' = [op |-> "start_monitoring", started |-> TRUE]
       ELSE /\ loop_ev' = [op |-> "start_monitoring", started |-> FALSE]
            /\ UNCHANGED <<is_monitoring, monitoring_thread, loop_pc>>
    /\ UNCHANGED <<ctl_pc, loop_checks>>
    /\ UNCHANGED <<baseVars, scoreVars, runVars, riskVars, collectVars,
                   tradeVars>>

\* stop_monitoring up to the join: the flag is cleared and the caller
\* waits for the thread that monitoring_thread names.
StopMonitoring ==
    /\ ctl_pc = "idle"
    /\ IF is_monitoring
       THEN /\ is_monitoring' = FALSE
            /\ ctl_pc' = IF monitoring_thread # 0 THEN "joining" ELSE "idle"
            /\ loop_ev' = [op |-> "stop_monitoring", stopped |-> TRUE]
       ELSE /\ loop_ev' = [op |-> "stop_monitoring", stopped |-> FALSE]
            /\ UNCHANGED <<is_monitoring, ctl_pc>>
    /\ UNCHANGED <<monitoring_thread, loop_pc, loop_checks>>
    /\ UNCHANGED <<baseVars, scoreVars, runVars, riskVars, collectVars,
                   tradeVars>>

\* join(timeout=5) returns: the thread has ended, or five seconds have
\* passed with the thread inside a sleep of monitoring_interval seconds.
JoinReturn ==
    /\ ctl_pc = "joining"
    /\ \/ loop_pc[monitoring_thread] = "done"
       \/ /\ loop_pc[monitoring_thread] = "sleep"
          /\ monitoring_interval > join_timeout
    /\ ctl_pc' = "idle"
    /\ loop_ev' = [op |-> "join",
                   joined |-> loop_pc[monitoring_thread] = "done"]
    /\ UNCHANGED <<is_monitoring, monitoring_thread, loop_pc, loop_checks>>
    /\ UNCHANGED <<baseVars, scoreVars, runVars, riskVars, collectVars,
                   tradeVars>>

\* _monitoring_loop, the test of the while and the body up to the sleep:
\* _check_portfolio_alerts catches what it raises.
LoopTest(t) ==
    /\ loop_pc[t] = "test"
    /\ IF is_monitoring
       THEN /\ loop_checks[t] < MaxChecks
            /\ loop_checks' = [loop_checks EXCEPT ![t] = @ + 1]
            /\ loop_pc' = [loop_pc EXCEPT ![t] = "sleep"]
       ELSE /\ loop_pc' = [loop_pc EXCEPT ![t] = "done"]
            /\ UNCHANGED loop_checks
    /\ loop_ev' = [op |-> "loop", thread |-> t]
    /\ UNCHANGED <<is_monitoring, monitoring_thread, ctl_pc>>
    /\ UNCHANGED <<baseVars, scoreVars, runVars, riskVars, collectVars,
                   tradeVars>>

\* _monitoring_loop: time.sleep returns.
LoopWake(t) ==
    /\ loop_pc[t] = "sleep"
    /\ loop_pc' = [loop_pc EXCEPT ![t] = "test"]
    /\ loop_ev' = [op |-> "wake", thread |-> t]
    /\ UNCHANGED <<is_monitoring, monitoring_thread, ctl_pc, loop_checks>>
    /\ UNCHANGED <<baseVars, scoreVars, runVars, riskVars, collectVars,
                   tradeVars>>

----------------------------------------------------------------------------

Init ==
    /\ analysis_results = <<>>
    /\ recommendations = <<>>
    /\ rec_done = FALSE
    /\ main_out = NoMainOut
    /\ now = StartTime
    /\ ticks = 0
    /\ cache = [k \in CacheKeys |-> NoEntry]
    /\ task = [t \in Tasks |-> [pc |-> "idle",
                                key |-> CHOOSE k \in CacheKeys : TRUE]]
    /\ ev = [op |-> "init", key |-> CHOOSE k \in CacheKeys : TRUE,
             data |-> "None", propagated |-> FALSE]
    /\ metrics = [n \in MetricNames |-> <<>>]
    /\ alerts = AlertConfig
    /\ alert_log = <<>>
    /\ tracked = [n \in MetricNames |-> <<>>]
    /\ mon_ev = [op |-> "init", name |-> "", value |-> 0]
    /\ score_ev = [op |-> "init", input |-> <<>>, result |-> <<>>]
    /\ run_pc = "start"
    /\ run_data = <<>>
    /\ run_results = <<>>
    /\ run_recs = <<>>
    /\ risk_ev = [op |-> "init", input |-> <<>>, result |-> <<>>]
    /\ coroutines = [data_type \in DataCategories |-> <<>>]
    /\ collect_log = <<>>
    /\ daily_loss = <<0, 1>>
    /\ daily_start_value = 0
    /\ peak_portfolio_value = 0
    /\ trade_ev = [op |-> "init"]
    /\ is_monitoring = FALSE
    /\ monitoring_thread = 0
    /\ loop_pc = [t \in LoopThreads |-> "unstarted"]
    /\ loop_checks = [t \in LoopThreads |-> 0]
    /\ ctl_pc = "idle"
    /\ loop_ev = [op |-> "init"]

NextAdd == \E analysis \in Analyses : AddAnalysis(analysis)

NextMain ==
    \E total_score \in TotalScores, risk_score \in RiskScores,
       thresholds \in ThresholdConfigs :
        MainGetRecommendation(total_score, risk_score, thresholds)

Next == NextAdd \/ GenerateRecommendations \/ NextMain

Spec == Init /\ [][Next]_vars

NextGet ==
    \E t \in Tasks, data_type \in DataTypes, symbol \in Symbols :
        GetData(t, data_type, symbol)

NextFetchReturn ==
    \E t \in Tasks, outcome \in FetchOutcomes : FetchReturn(t, outcome)

NextCacheTick == \E d \in CacheTickSteps : CacheTick(d)

NextCache == NextGet \/ NextFetchReturn \/ ClearCache \/ NextCacheTick

SpecCache == Init /\ [][NextCache]_vars

NextTrack ==
    /\ TotalTracked < MaxTracks
    /\ \E name \in MetricNames, value \in MetricValues,
          timestamp \in Timestamps :
           TrackMetric(name, value, timestamp)

NextMonTick == \E d \in AlertTickSteps : MonTick(d)

NextMon == NextTrack \/ NextMonTick

SpecMon == Init /\ [][NextMon]_vars

NextProbeTrack ==
    /\ TotalTracked < MaxProbeTracks
    /\ \E name \in MetricNames, value \in MetricValues,
          timestamp \in Timestamps :
           TrackMetric(name, value, timestamp)

NextEvaluate ==
    \E i \in DOMAIN alerts, current_value \in ProbeValues :
        EvaluateAlert(i, current_value)

NextProbe == NextProbeTrack \/ NextEvaluate

SpecProbe == Init /\ [][NextProbe]_vars

NextRing == \E name \in MetricNames : RingTrack(name)

SpecRing == Init /\ [][NextRing]_vars

NextTechnical == \E market_data \in Frames : AnalyzeTechnical(market_data)

NextFundamental ==
    \E fundamental_data \in FundamentalPayloads :
        AnalyzeFundamental(fundamental_data)

NextNews == \E news_data \in NewsPayloads : AnalyzeNews(news_data)

NextSentiment == \E news_data \in NewsPayloads : AnalyzeSentiment(news_data)

NextScore == NextTechnical \/ NextFundamental \/ NextNews \/ NextSentiment

SpecScore == Init /\ [][NextScore]_vars

\* A series of calls for one symbol whose price series gets rougher or
\* calmer: beta, Sharpe ratio and fundamentals stay as in the first call.
NextScoreRisk ==
    \E volatility \in RiskVolatilities, beta \in RiskBetas,
       sharpe \in RiskSharpes, max_drawdown \in RiskDrawdowns,
       var \in RiskVars, fundamental_data \in RiskSnapshots :
        /\ risk_ev.op = "risk_score" =>
               /\ beta = risk_ev.input.beta
               /\ sharpe = risk_ev.input.sharpe
               /\ fundamental_data = risk_ev.input.fundamental_data
        /\ ScoreRisk(volatility, beta, sharpe, max_drawdown, var,
                     fundamental_data)

SpecRiskScore == Init /\ [][NextScoreRisk]_vars

NextNormalize ==
    \E metric \in RawMetrics :
        \E raw \in RawValues(metric) : NormalizeCall(metric, raw)

SpecNormalize == Init /\ [][NextNormalize]_vars

NextCollectSymbol ==
    \E data_type \in DataCategories, symbol \in Symbols,
       outcome \in ProviderOutcomes :
        CollectSymbolDataCall(data_type, symbol, outcome)

SpecCollect == Init /\ [][NextCollectSymbol]_vars

NextValidateTrade ==
    \E recommendation \in TradeRecommendations,
       portfolio \in TradePortfolios :
        ValidateTrade(recommendation, portfolio)

NextUpdateDaily ==
    \E portfolio_value \in PortfolioValues :
        UpdateDailyMetrics(portfolio_value)

NextTrade == NextValidateTrade \/ NextUpdateDaily \/ ResetDailyMetrics

SpecTrade == Init /\ [][NextTrade]_vars

NextLoopTest == \E t \in LoopThreads : LoopTest(t)

NextLoopWake == \E t \in LoopThreads : LoopWake(t)

NextLoop ==
    StartMonitoring \/ StopMonitoring \/ JoinReturn \/ NextLoopTest
        \/ NextLoopWake

SpecLoop == Init /\ [][NextLoop]_vars

NextAssessRisk ==
    /\ risk_ev.op = "init"
    /\ \E max_position_size \in max_position_sizes,
          market_data \in PriceFrames, fundamental_data \in Snapshots :
           AssessRiskCall(max_position_size, market_data, fundamental_data)

SpecRisk == Init /\ [][NextAssessRisk]_vars

NextCollectAll ==
    \E n \in 1..MaxSymbols :
        \E outcomes \in [1..n -> SymbolOutcomes] : CollectAll(outcomes)

NextRun == NextCollectAll \/ AnalyzeAll \/ RunRecommend

SpecRun == Init /\ [][NextRun]_vars

----------------------------------------------------------------------------
(* Claims about the recommendation paths *)

RiskCeiling == 80

Recs == {recommendations[i] : i \in 1..Len(recommendations)}

FracLeq(a, b) == a[1] * b[2] <= b[1] * a[2]

FracEq(a, b) == a[1] * b[2] = b[1] * a[2]

Whole(x) == <<x, 1>>

\* C5: an overall score of at least min_score (60) gives "buy", one of at
\* most 100 - min_score (40) gives "sell", every other score gives "hold",
\* and no other label occurs.
C5_DecisionRule ==
    rec_done =>
        \A r \in Recs :
            LET overall == CalculateOverallScore(r.analysis)
                isBuy == FracLeq(Whole(min_score * 10), overall)
                isSell == FracLeq(overall, Whole((100 - min_score) * 10))
            IN  /\ r.recommendation \in {"buy", "sell", "hold"}
                /\ isBuy => r.recommendation = "buy"
                /\ isSell => r.recommendation = "sell"
                /\ ~isBuy /\ ~isSell => r.recommendation = "hold"

\* C5 witness: a symbol scored exactly 60.0 that was given "buy" next to a
\* symbol strictly between the thresholds that was given "hold".
C5_Witness ==
    /\ rec_done
    /\ \E r \in Recs :
           /\ FracEq(CalculateOverallScore(r.analysis), Whole(min_score * 10))
           /\ r.recommendation = "buy"
    /\ \E r \in Recs : r.recommendation = "hold"

ScoresOf(analysis) == {GetScore(analysis[t]) : t \in Present(analysis)}

RECURSIVE SumScoreWeight(_, _)
SumScoreWeight(analysis, types) ==
    IF types = {} THEN 0
    ELSE LET t == CHOOSE x \in types : TRUE
         IN  GetScore(analysis[t]) * risk_weights[t]
             + SumScoreWeight(analysis, types \ {t})

RECURSIVE SumWeight(_)
SumWeight(types) ==
    IF types = {} THEN 0
    ELSE LET t == CHOOSE x \in types : TRUE
         IN  risk_weights[t] + SumWeight(types \ {t})

Without(analysis, t) == [analysis EXCEPT ![t] = Absent]

Rank(label) == IF label = "buy" THEN 1 ELSE IF label = "sell" THEN 2 ELSE 3

Processed == {i \in 1..Len(analysis_results) : ~Raises(analysis_results[i])}

\* C8: the output holds the buy group in descending overall_score, then
\* the sell group in ascending overall_score, then the hold group; equal
\* scores inside a group keep their input order; the output is a
\* permutation of the symbols processed without error.
C8_OutputOrdering ==
    rec_done =>
        /\ Len(recommendations) = Cardinality(Processed)
        /\ {r.symbol : r \in Recs} = Processed
        /\ \A r \in Recs : r.analysis = analysis_results[r.symbol]
        /\ \A i, j \in 1..Len(recommendations) :
               i < j =>
                   LET a == recommendations[i]
                       b == recommendations[j]
                   IN  /\ Rank(a.recommendation) <= Rank(b.recommendation)
                       /\ a.recommendation = "buy" /\ b.recommendation = "buy"
                              => a.overall_score >= b.overall_score
                       /\ a.recommendation = "sell" /\ b.recommendation = "sell"
                              => a.overall_score <= b.overall_score
                       /\ a.recommendation = b.recommendation
                              /\ a.overall_score = b.overall_score
                              => a.symbol < b.symbol

\* C8 witness: two buy recommendations of equal overall_score came out
\* in input order.
C8_Witness ==
    /\ rec_done
    /\ Len(recommendations) >= 2
    /\ recommendations[1].recommendation = "buy"
    /\ recommendations[2].recommendation = "buy"
    /\ recommendations[1].overall_score = recommendations[2].overall_score
    /\ recommendations[1].symbol < recommendations[2].symbol

\* C14: should_trigger is a pure predicate of condition, threshold and
\* value: 'gt' is true iff value > threshold, 'lt' iff value < threshold,
\* 'eq' iff |value - threshold| < 0.0001; evaluating it changes neither
\* last_triggered nor any other state of the monitoring system.
C14_ShouldTriggerPure ==
    [][mon_ev'.op = "should_trigger" =>
           LET a == alerts[mon_ev'.alert]
               v == mon_ev'.value
           IN  /\ a.condition = "gt" => (mon_ev'.result <=> v > a.threshold)
               /\ a.condition = "lt" => (mon_ev'.result <=> v < a.threshold)
               /\ a.condition = "eq" =>
                      (mon_ev'.result <=>
                           /\ v - a.threshold < EqTolerance
                           /\ a.threshold - v < EqTolerance)
               /\ alerts' = alerts
               /\ metrics' = metrics
               /\ alert_log' = alert_log]_vars

\* C14 witness: an 'eq' alert that has fired is evaluated on a value
\* exactly 0.0001 above its threshold: the answer is no, and the time of
\* its last firing is still there.
C14_Witness ==
    /\ mon_ev.op = "should_trigger"
    /\ alerts[mon_ev.alert].condition = "eq"
    /\ mon_ev.value - alerts[mon_ev.alert].threshold = EqTolerance
    /\ ~mon_ev.result
    /\ alerts[mon_ev.alert].last_triggered # 0
    /\ alert_log # <<>>

\* The last n elements of a sequence (all of it when it has fewer).
LastN(seq, n) ==
    IF Len(seq) <= n THEN seq ELSE SubSeq(seq, Len(seq) - n + 1, Len(seq))

\* C13: after any sequence of track_metric calls the history of every
\* metric holds at most 1000 entries and is the most recent min(n, 1000)
\* of the n (timestamp, value) pairs tracked under that name, in call
\* order.
C13_BoundedMetricRing ==
    \A n \in MetricNames :
        /\ Len(metrics[n]) <= MaxHistory
        /\ metrics[n] = LastN(tracked[n], MaxHistory)

\* C13 witness: more than 1000 values were tracked under one name and the
\* oldest one is gone from its history.
C13_Witness ==
    \E n \in MetricNames :
        /\ Len(tracked[n]) > MaxHistory
        /\ Len(metrics[n]) = MaxHistory
        /\ metrics[n][1] # tracked[n][1]

----------------------------------------------------------------------------
(* Claims about a whole run *)

RunSymbols == 1..Len(run_data)

\* Some category of the symbol could not be collected.
CollectionFailed(i) == \E c \in DataCategories : run_data[i][c].none

\* Some stage of the run failed for the symbol.
StageFailed(i) ==
    \/ CollectionFailed(i)
    \/ SymbolAnalysis(run_data[i]).raised
    \/ Raises(SymbolAnalysis(run_data[i]).analysis)

\* C12: when collecting, analysing or recommending fails for a symbol, the
\* run still completes, the final output holds every symbol no stage
\* failed for, and it holds no symbol a stage failed for.
C12_PartialFailureOmitsSymbol ==
    run_pc = "done" =>
        {run_recs[k].symbol : k \in 1..Len(run_recs)}
            = {i \in RunSymbols : ~StageFailed(i)}

----------------------------------------------------------------------------
(* Claims about the collector's cache *)

\* The key's entry exists and is younger than the timeout of its category.
LiveEntry(key) ==
    /\ cache[key].has
    /\ now - cache[key].timestamp < cache_timeout[key[1]]

IsGet == ev.op \in {"get_hit", "get_miss"}

\* C2: a get for a key whose entry is younger than the TTL of its category
\* returns the cached payload and does not call the provider, so a second
\* get inside the TTL adds no upstream call.
C2_CacheHit ==
    IsGet /\ LiveEntry(ev.key)
        => /\ ev.op = "get_hit"
           /\ ev.data = cache[ev.key].data

\* C2 witness: a get answered from an entry that a fetch stored earlier,
\* time having passed since, and no task is calling the provider.
C2_Witness ==
    /\ ev.op = "get_hit"
    /\ cache[ev.key].has
    /\ now > cache[ev.key].timestamp
    /\ ev.data = cache[ev.key].data
    /\ \A t \in Tasks : task[t].pc = "idle"

\* C9: a get for a key with no entry, or with an entry of age >= TTL, calls
\* the provider; a fetched payload replaces the entry, stamped with the
\* current time, and is what the caller gets; a hit is never served from
\* an entry of age >= TTL.
C9_CacheExpiry ==
    /\ IsGet /\ ~LiveEntry(ev.key)
           => /\ ev.op = "get_miss"
              /\ \E t \in Tasks :
                     task[t].pc = "fetching" /\ task[t].key = ev.key
    /\ ev.op = "fetch_ok"
           => /\ ev.data \in Payloads
              /\ cache[ev.key] =
                     [has |-> TRUE, data |-> ev.data, timestamp |-> now]
    /\ ev.op = "get_hit"
           => now - cache[ev.key].timestamp < cache_timeout[ev.key[1]]

\* C9 witness: a get found an entry exactly as old as its TTL and called
\* the provider.
C9_Witness ==
    /\ ev.op = "get_miss"
    /\ cache[ev.key].has
    /\ now - cache[ev.key].timestamp = cache_timeout[ev.key[1]]

\* C10 as claimed: when the provider raises while a stale entry exists,
\* the stale payload is not returned and the error reaches the caller.
C10_ErrorPropagates ==
    ev.op = "fetch_raise" /\ cache[ev.key].has /\ ~LiveEntry(ev.key)
        => /\ ev.data # cache[ev.key].data
           /\ ev.propagated

\* C10 as amended: when the provider raises while a stale entry exists,
\* the stale payload is not returned; the caller gets None and no error
\* reaches it.
C10_ErrorSwallowed ==
    ev.op = "fetch_raise" /\ cache[ev.key].has /\ ~LiveEntry(ev.key)
        => /\ ev.data # cache[ev.key].data
           /\ ev.data = "None"
           /\ ~ev.propagated

\* C10 witness: the provider raised while the key's entry was stale.
C10_Witness ==
    /\ ev.op = "fetch_raise"
    /\ cache[ev.key].has
    /\ ~LiveEntry(ev.key)

\* The number of provider calls for the key that have not returned yet.
InFlight(key) ==
    Cardinality({t \in Tasks : task[t].pc = "fetching" /\ task[t].key = key})

\* C11: there is no single-flight: every get for a key without a live
\* entry starts a provider call of its own, also while another task's call
\* for the same key has not returned, so the upstream fetch can be running
\* twice for one key.
C11_NoSingleFlight ==
    [][\A k \in CacheKeys :
           ev'.op \in {"get_hit", "get_miss"} /\ ev'.key = k /\ ~LiveEntry(k)
               => InFlight(k)' = InFlight(k) + 1]_vars

\* C11 witness: both tasks passed the validity check for the same key
\* before either stored a result, and both provider calls are in flight.
C11_Witness ==
    \E k \in CacheKeys :
        /\ ~LiveEntry(k)
        /\ InFlight(k) = 2

----------------------------------------------------------------------------
(* Claims about the alert cooldown *)

LogIndex == 1..Len(alert_log)

\* A tracked value that satisfied the alert's condition without firing it.
SuppressedBreachBetween(i, from, to) ==
    \E k \in 1..Len(metrics[alerts[i].name]) :
        LET sample == metrics[alerts[i].name][k]
        IN  /\ from < sample[1]
            /\ sample[1] < to
            /\ ShouldTrigger(alerts[i], sample[2])
            /\ \A l \in LogIndex :
                   alert_log[l].alert = i => alert_log[l].time # sample[1]

\* C3: after an alert has fired at time t, no breach evaluated before
\* t + 3600 fires it again: two firings of the same alert are at least
\* 3600 seconds apart, and last_triggered is the time of the latest one.
C3_CooldownSuppression ==
    /\ \A k, l \in LogIndex :
           k < l /\ alert_log[k].alert = alert_log[l].alert
               => alert_log[l].time - alert_log[k].time >= Cooldown
    /\ \A i \in DOMAIN alerts :
           \A l \in LogIndex :
               alert_log[l].alert = i
                   => alert_log[l].time <= alerts[i].last_triggered

\* C3 witness: an alert fired, a breach ten minutes later did not fire
\* it, and it has fired a second time since.
C3_Witness ==
    \E k, l \in LogIndex :
        /\ k < l
        /\ alert_log[k].alert = alert_log[l].alert
        /\ \E m \in 1..Len(metrics[alerts[alert_log[k].alert].name]) :
               LET sample == metrics[alerts[alert_log[k].alert].name][m]
               IN  /\ sample[1] = alert_log[k].time + 600
                   /\ ShouldTrigger(alerts[alert_log[k].alert], sample[2])
        /\ SuppressedBreachBetween(alert_log[k].alert, alert_log[k].time,
                                   alert_log[l].time)

LastFiring(i) ==
    IF \E l \in LogIndex : alert_log[l].alert = i
    THEN alert_log[CHOOSE l \in LogIndex :
                       /\ alert_log[l].alert = i
                       /\ \A m \in LogIndex :
                              alert_log[m].alert = i => m <= l].time
    ELSE 0

FiredNow(i) ==
    /\ alert_log # <<>>
    /\ \E l \in LogIndex :
           alert_log[l].alert = i /\ alert_log[l].time = now
    /\ alerts[i].last_triggered = now

\* C4: a tracked value that satisfies an alert's condition fires the alert
\* and sets last_triggered to the time of the evaluation unless the alert
\* fired less than 3600 seconds before; a breach that was suppressed
\* leaves last_triggered at the time of the last firing, so it does not
\* postpone the re-arming.
C4_Rearming ==
    mon_ev.op = "track" =>
        \A i \in DOMAIN alerts :
            Breached(alerts[i], mon_ev.name, mon_ev.value) =>
                \/ FiredNow(i)
                \/ /\ LastFiring(i) # 0
                   /\ now - LastFiring(i) < Cooldown
                   /\ alerts[i].last_triggered = LastFiring(i)

\* C4 witness: an alert fires again exactly 3600 seconds after its first
\* firing, a breach having been suppressed in between.
C4_Witness ==
    /\ mon_ev.op = "track"
    /\ \E i \in DOMAIN alerts :
           /\ Breached(alerts[i], mon_ev.name, mon_ev.value)
           /\ FiredNow(i)
           /\ \E l \in LogIndex :
                  /\ alert_log[l].alert = i
                  /\ alert_log[l].time = now - Cooldown
                  /\ SuppressedBreachBetween(i, alert_log[l].time, now)

(***************************************************************************)
(* Claims about the risk manager *)
(***************************************************************************)
\* C15: with beta, Sharpe ratio and fundamental data held fixed, the
\* composite risk score of a call is never below the risk score of the call
\* before it when volatility, VaR and maximal drawdown are each at least as
\* large as they were in that call.
C15_RiskMonotone ==
    (/\ risk_ev.op = "risk_score"
     /\ risk_ev.before.op = "risk_score"
     /\ risk_ev.input.beta = risk_ev.before.input.beta
     /\ risk_ev.input.sharpe = risk_ev.before.input.sharpe
     /\ risk_ev.input.fundamental_data
            = risk_ev.before.input.fundamental_data
     /\ risk_ev.input.volatility >= risk_ev.before.input.volatility
     /\ risk_ev.input.var >= risk_ev.before.input.var
     /\ risk_ev.input.max_drawdown >= risk_ev.before.input.max_drawdown)
        => risk_ev.result >= risk_ev.before.result

\* The drawdown alone has crossed a band edge and the score has risen.
C15_Witness ==
    /\ risk_ev.op = "risk_score"
    /\ risk_ev.before.op = "risk_score"
    /\ risk_ev.input.volatility = risk_ev.before.input.volatility
    /\ risk_ev.input.var = risk_ev.before.input.var
    /\ risk_ev.input.max_drawdown > risk_ev.before.input.max_drawdown
    /\ risk_ev.result > risk_ev.before.result

\* C16: the risk score assess_risk returns lies in [0, 100], the success
\* probability is a number in [0, 100] and the potential return is a number
\* that is at least 0, for every price series and every fundamental
\* snapshot.
C16_AssessmentRanges ==
    risk_ev.op = "assess_risk" =>
        /\ risk_ev.result.risk_score >= 0
        /\ risk_ev.result.risk_score <= 1000
        /\ ~risk_ev.result.success_probability.nan
        /\ risk_ev.result.success_probability.v >= 0
        /\ risk_ev.result.success_probability.v <= 1000
        /\ ~risk_ev.result.potential_return.nan
        /\ risk_ev.result.potential_return.v >= 0

\* C17: the position size reported is max_position_size * (1 - risk_score /
\* 100), it is not above the configured ceiling and it is above zero.
C17_PositionSize ==
    risk_ev.op = "assess_risk" =>
        /\ risk_ev.result.max_position_size
               = RoundScaled(Frac(risk_ev.input.max_position_size
                                     * (1000 - risk_ev.result.risk_score),
                                  1000000), 4)
        /\ risk_ev.result.max_position_size
               <= risk_ev.input.max_position_size * 10
        /\ risk_ev.result.max_position_size > 0

\* A stage of assess_risk has failed: the price series is missing, or the
\* fundamental payload cannot be read.
RiskStageFailed ==
    \/ risk_ev.input.market_data.kind = "missing"
    \/ ValuationRaises(risk_ev.input.fundamental_data)

\* C18 as claimed: when a stage of assess_risk fails, the result is the
\* default assessment (risk 50, probability 50, return 10 %, position 5 %)
\* and nothing is raised.
C18_DefaultOnFailure ==
    (risk_ev.op = "assess_risk" /\ RiskStageFailed) =>
        risk_ev.result = GetDefaultAssessment

\* C18 as the code has it: nothing is raised, and a missing price series is
\* replaced stage by stage by the constants of the stages (volatility 0.30,
\* beta 1.0, Sharpe 0.0, drawdown 0.20, VaR 0.02, trend 0, technical
\* potential 0.1); with no fundamental data either the assessment is risk
\* 53.0, probability 57.0 and position 4.7 % of a 10 % ceiling.
C18_StageFallbacks ==
    risk_ev.op = "assess_risk" =>
        /\ ~risk_ev.result.raised
        /\ risk_ev.input.market_data.kind = "missing" =>
               /\ risk_ev.result.risk_score
                      = CalculateRiskScoreRM(
                            300, 100, <<0, 1>>, 200, 20,
                            risk_ev.input.fundamental_data)
               /\ ~risk_ev.result.success_probability.nan
               /\ ~risk_ev.result.potential_return.nan
               /\ risk_ev.input.fundamental_data.kind = "none" =>
                      /\ risk_ev.result.risk_score = 530
                      /\ risk_ev.result.success_probability.v = 570
                      /\ risk_ev.result.potential_return.v \in {73, 74}
                      /\ risk_ev.input.max_position_size = 100 =>
                             risk_ev.result.max_position_size = 470

C18_Witness ==
    /\ risk_ev.op = "assess_risk"
    /\ risk_ev.input.market_data.kind = "missing"
    /\ risk_ev.input.fundamental_data.kind = "none"
    /\ risk_ev.input.max_position_size = 100
    /\ risk_ev.result.risk_score = 530
    /\ risk_ev.result.max_position_size = 470

----------------------------------------------------------------------------
(* Claims about the scorers *)

\* C19 as claimed: whenever a computation inside TechnicalAnalyzer.analyze
\* fails (no Close or no Volume column, too few rows), analyze returns the
\* neutral default, score 50 and 'hold', and raises nothing.
C19_NeutralOnFailure ==
    (score_ev.op = "technical" /\ TechnicalFailure(score_ev.input)) =>
        /\ ~score_ev.result.raised
        /\ score_ev.result.score = 500
        /\ score_ev.result.recommendation = "hold"

\* C19 as the code has it: analyze raises nothing; a failure the handler of
\* analyze itself catches (the SMA handler reading a Close column that is
\* missing or empty) gives the default with score 50 and 'hold'; any other
\* failing indicator is replaced by its own neutral value, sub-score 50,
\* and the score is the weighted sum with the indicators that did compute.
C19_IndicatorFallbacks ==
    score_ev.op = "technical" =>
        LET df == score_ev.input
            result == score_ev.result
            escaped == ~df.close \/ df.rows = "empty"
            rsi == IF df.rows = "many" THEN GetRsiScore(df.rsi) ELSE 50
            sma == IF df.rows = "many" THEN GetSignalScore(df.sma) ELSE 50
            macd == IF df.rows = "many" THEN GetSignalScore(df.macd) ELSE 50
            volume == IF df.rows = "many" /\ df.volume
                      THEN GetSignalScore(df.vol) ELSE 50
        IN  /\ ~result.raised
            /\ escaped => result = TechnicalDefault
            /\ ~escaped =>
                   /\ ~result.error
                   /\ result.score = 3 * rsi + 3 * sma + 3 * macd + volume
                   /\ result.recommendation =
                          IF result.score >= 700 THEN "buy"
                          ELSE IF result.score <= 300 THEN "sell"
                          ELSE "hold"

\* The Volume column is missing, the volume signal fell back on neutral,
\* and the three other indicators make the result a buy of 77.0.
C19_Witness ==
    /\ score_ev.op = "technical"
    /\ score_ev.input.close
    /\ ~score_ev.input.volume
    /\ score_ev.result.score = 770
    /\ score_ev.result.recommendation = "buy"

\* C20: the fundamental, the news and the sentiment scorer raise nothing
\* past their analyze method, whatever the payload, a ratio of None and an
\* article with an unparsable published_at included.
C20_ScorersNeverRaise ==
    score_ev.op \in {"fundamental", "news", "sentiment"} =>
        ~score_ev.result.raised

\* The configured ratios the payload holds a number for, and the sum of
\* their sub-scores.
AvailableRatios(fundamental_data) ==
    {key \in fundamental_metrics : fundamental_data[key].kind = "num"}

AvailableSum(fundamental_data) ==
    (IF fundamental_data.pe_ratio.kind = "num"
     THEN PeScore(fundamental_data.pe_ratio.v) ELSE 0)
    + (IF fundamental_data.eps.kind = "num"
       THEN EpsScore(fundamental_data.eps.v) ELSE 0)
    + (IF fundamental_data.revenue_growth.kind = "num"
       THEN GrowthScore(fundamental_data.revenue_growth.v) ELSE 0)

\* C21: for a snapshot whose ratios are numbers or absent and that holds a
\* configured ratio, the fundamental score is the mean, to one decimal, of
\* the sub-scores of exactly the configured ratios it holds, and the label
\* is 'buy' iff the mean is above 60, 'sell' iff it is below 40, else
\* 'hold'.
C21_FundamentalMean ==
    (/\ score_ev.op = "fundamental"
     /\ score_ev.input.kind = "dict"
     /\ \A key \in MetricKeys : score_ev.input[key].kind # "null"
     /\ AvailableRatios(score_ev.input) # {}) =>
        LET n == Cardinality(AvailableRatios(score_ev.input))
            sum == AvailableSum(score_ev.input)
            result == score_ev.result
        IN  /\ ~result.raised
            /\ result.metrics = AvailableRatios(score_ev.input)
            /\ 2 * Abs(result.score * n - 10 * sum) <= n
            /\ result.recommendation = "buy" <=> sum > 60 * n
            /\ result.recommendation = "sell" <=> sum < 40 * n
            /\ result.recommendation \in {"buy", "sell", "hold"}

\* {pe_ratio 10, eps 3, revenue_growth 0.15}: mean(80, 60, 75) = 71.7, buy.
C21_Witness ==
    /\ score_ev.op = "fundamental"
    /\ score_ev.input.kind = "dict"
    /\ score_ev.input.pe_ratio = Num(10)
    /\ score_ev.input.eps = Num(3)
    /\ score_ev.input.revenue_growth = Num(15)
    /\ score_ev.result.score = 717
    /\ score_ev.result.recommendation = "buy"

\* C22: an empty snapshot, and one that holds none of the configured
\* ratios, give score 50 with empty metrics and neither buy nor sell.
C22_FundamentalNeutral ==
    (/\ score_ev.op = "fundamental"
     /\ \/ score_ev.input.kind = "none"
        \/ \A key \in fundamental_metrics :
               score_ev.input[key].kind = "absent") =>
        /\ ~score_ev.result.raised
        /\ score_ev.result.score = 500
        /\ score_ev.result.metrics = {}
        /\ score_ev.result.recommendation \notin {"buy", "sell"}

\* The payload holds a profit margin only, which is not configured.
C22_Witness ==
    /\ score_ev.op = "fundamental"
    /\ score_ev.input.kind = "dict"
    /\ score_ev.input.profit_margin.kind = "num"
    /\ \A key \in fundamental_metrics : score_ev.input[key].kind = "absent"
    /\ score_ev.result.score = 500
    /\ score_ev.result.metrics = {}


\* C23: with fewer than min_articles articles SentimentAnalyzer.analyze
\* returns the default result, score 50.0 and 'hold' with the metrics of
\* no article, whatever the articles' text and dates are.
C23_ArticleThreshold ==
    (score_ev.op = "sentiment" /\ Len(score_ev.input) < min_articles) =>
        /\ ~score_ev.result.raised
        /\ score_ev.result.score = 500
        /\ score_ev.result.recommendation = "hold"
        /\ score_ev.result.total_articles = 0

\* Two recent articles of clearly positive text, which three of the same
\* kind would score as a buy, are answered with the default result.
C23_Witness ==
    /\ score_ev.op = "sentiment"
    /\ Len(score_ev.input) = min_articles - 1
    /\ \A i \in 1..Len(score_ev.input) :
           /\ score_ev.input[i].published_at = 9
           /\ score_ev.input[i].text.sentiment = "positive"
    /\ score_ev.result.score = 500
    /\ score_ev.result.recommendation = "hold"


\* Two normalisations of the same raw metric, the earlier with the raw
\* value that is not the larger.
RisingPair(metric) ==
    /\ risk_ev.op = "normalize"
    /\ risk_ev.metric = metric
    /\ risk_ev.before.metric = metric
    /\ risk_ev.before.raw <= risk_ev.raw

\* C24: every band table is monotone in its raw metric: the normalized
\* score never falls as volatility, beta, max drawdown or VaR grows, and
\* never rises as the Sharpe ratio grows.
C24_BandsMonotone ==
    /\ \A metric \in {"volatility", "beta", "max_drawdown", "var"} :
           RisingPair(metric) => risk_ev.before.score <= risk_ev.score
    /\ RisingPair("sharpe") => risk_ev.before.score >= risk_ev.score

\* C24 as the tables are: the score never falls as volatility, max
\* drawdown or VaR grows and never rises as the Sharpe ratio grows; the
\* beta table is lowest in the band around 1.0, never rising as beta grows
\* up to 1.2 and never falling as beta grows from above 0.8.
C24_BandsAroundOne ==
    /\ \A metric \in {"volatility", "max_drawdown", "var"} :
           RisingPair(metric) => risk_ev.before.score <= risk_ev.score
    /\ RisingPair("sharpe") => risk_ev.before.score >= risk_ev.score
    /\ RisingPair("beta") /\ risk_ev.raw <= 120
           => risk_ev.before.score >= risk_ev.score
    /\ RisingPair("beta") /\ risk_ev.before.raw > 80
           => risk_ev.before.score <= risk_ev.score

\* Beta 0.5 scored 40 and then beta 1.0 scored 30.
C24_Witness ==
    /\ RisingPair("beta")
    /\ risk_ev.before.raw = 50
    /\ risk_ev.before.score = 40
    /\ risk_ev.raw = 100
    /\ risk_ev.score = 30


\* C25: a second call of collect_market_data, collect_news or
\* collect_fundamentals for the same symbol does not fail and returns the
\* data the first call returned, so a second collect_all yields the
\* non-null payloads of the first.
C25_SecondCallSameData ==
    \A i, j \in 1..Len(collect_log) :
        (/\ i < j
         /\ ~collect_log[i].failed
         /\ collect_log[i].data_type = collect_log[j].data_type
         /\ collect_log[i].symbol = collect_log[j].symbol) =>
            /\ ~collect_log[j].failed
            /\ collect_log[j].data = collect_log[i].data


\* The step in which a provider call comes back with None or an exception.
FailedFetchStep ==
    /\ \E t \in Tasks : task[t].pc = "fetching" /\ task'[t].pc = "idle"
    /\ ev'.op \in {"fetch_none", "fetch_raise"}

\* C26: a fetch that returns None or raises leaves the cache map as it
\* was: no entry is created and a stale entry keeps its payload and its
\* timestamp; so every entry holds a payload that is not None, and a get
\* for the key after the failed fetch, the key still having no live entry,
\* calls the provider again.
C26_FailedFetchNotCached ==
    /\ [](\A k \in CacheKeys : cache[k].has => cache[k].data \in Payloads)
    /\ [][/\ FailedFetchStep => /\ cache' = cache
                                /\ ev'.data = "None"
          /\ (/\ ev.op \in {"fetch_none", "fetch_raise"}
              /\ ev'.op \in {"get_hit", "get_miss"}
              /\ ev'.key = ev.key
              /\ ~LiveEntry(ev.key))
                 => /\ ev'.op = "get_miss"
                    /\ InFlight(ev.key)' = InFlight(ev.key) + 1]_vars

\* C26 witness: the provider returned None or raised for a key whose entry
\* had gone stale, and the entry is there with its old payload and
\* timestamp.
C26_Witness ==
    /\ ev.op \in {"fetch_none", "fetch_raise"}
    /\ ev.data = "None"
    /\ cache[ev.key].has
    /\ cache[ev.key].data \in Payloads
    /\ now - cache[ev.key].timestamp >= cache_timeout[ev.key[1]]


\* The step of one track_metric call.
TrackStep == mon_ev'.op = "track" /\ tracked' # tracked

\* C27: track_metric(name, value) moves last_triggered, to the time of
\* the call, only of the alerts of that name whose condition the value
\* satisfies and which are not inside their own cooldown; every other
\* alert is left as it was, and nothing but last_triggered ever changes,
\* so that two alerts of one name keep cooldowns of their own.
C27_AlertIsolation ==
    [][TrackStep =>
          \A i \in DOMAIN alerts :
              LET armed == \/ alerts[i].last_triggered = 0
                           \/ now - alerts[i].last_triggered >= Cooldown
                  fires == /\ alerts[i].name = mon_ev'.name
                           /\ ShouldTrigger(alerts[i], mon_ev'.value)
                           /\ armed
              IN  alerts'[i] =
                      IF fires THEN [alerts[i] EXCEPT !.last_triggered = now]
                      ELSE alerts[i]]_vars

\* C27 witness: the two alerts on daily_loss have fired at different
\* times, the second while the first was inside its cooldown and was
\* suppressed by the same call, and the alert on portfolio_value has not
\* moved.
C27_Witness ==
    /\ mon_ev.op = "track"
    /\ mon_ev.name = "daily_loss"
    /\ alerts[1].name = "daily_loss" /\ alerts[2].name = "daily_loss"
    /\ ShouldTrigger(alerts[1], mon_ev.value)
    /\ alerts[1].last_triggered # 0
    /\ alerts[2].last_triggered = now
    /\ alerts[1].last_triggered < now
    /\ now - alerts[1].last_triggered < Cooldown
    /\ alerts[3].name = "portfolio_value"
    /\ alerts[3].last_triggered = 0


\* The drawdown of the portfolio handed to validate_trade from the tracked
\* peak is above max_drawdown.
DrawdownExceeded ==
    LET current_value == IF trade_ev.portfolio.total_value = NoKey THEN 0
                         ELSE trade_ev.portfolio.total_value
    IN  /\ peak_portfolio_value > 0
        /\ (peak_portfolio_value - current_value) * core_max_drawdown[2]
               > core_max_drawdown[1] * peak_portfolio_value

\* C28: whatever update_daily_metrics and reset_daily_metrics calls came
\* before, validate_trade approves exactly when the risk score (100 when
\* missing) is at most 80, the tracked daily loss is at most
\* max_daily_loss and the drawdown from the tracked peak is at most
\* max_drawdown; it never rejects for the position size.
C28_TradeValidation ==
    trade_ev.op = "validate_trade" =>
        LET risk_score ==
                IF trade_ev.recommendation.risk_score = NoKey THEN 1000
                ELSE trade_ev.recommendation.risk_score
        IN  /\ ~trade_ev.result.raised
            /\ trade_ev.result.valid <=>
                   /\ risk_score <= 800
                   /\ FracLeq(daily_loss, core_max_daily_loss)
                   /\ ~DrawdownExceeded
            /\ trade_ev.result.why # "position_size"


\* C29: at most one monitoring loop thread is alive at any time: a start
\* while monitoring is active starts no thread, and a start after a stop
\* that has returned does not find the loop thread of before still
\* running.
C29_OneLoop ==
    Cardinality({t \in LoopThreads : Alive(t)}) <= 1


\* C30: in every record of generate_recommendations the recommendation is
\* what the decision rule gives for the record's own overall_score, the
\* score rounded to one decimal: 'buy' from min_score up, 'sell' up to
\* 100 - min_score, otherwise 'hold'.
C30_ReportedScoreAgrees ==
    rec_done =>
        \A r \in Recs : r.recommendation = Decide(<<r.overall_score, 1>>)

============================================================================
